---- MODULE Spec2Model ----
(***************************************************************************)
(* Gengar: the Redis-backed proxy pool (rotation-engine/pool.py), the      *)
(* mark-block endpoint (rotation-engine/main.py) and the five rotation     *)
(* strategies (rotation-engine/strategies.py).                             *)
(*                                                                         *)
(* Every coroutine of the pool and of the strategies is one action: the    *)
(* store operations it awaits are applied in program order.                *)
(***************************************************************************)
EXTENDS Integers, Sequences, FiniteSets, TLC

\* ------------------------------------------------------------------------
\* Bounds of the model
\* ------------------------------------------------------------------------

\* Canonical "<ip>:<port>" addresses the operations are applied to.
Addr == {"1.1.1.1:8080", "2.2.2.2:3128", "3.3.3.3:80"}

\* record_success / record_failure stop once the checks recorded over the
\* whole pool reach this budget.
MaxChecks == 4

\* mark-block requests stop once the blocks counter reaches this value.
MaxBlocks == 1

\* Live-log entries published one after the other.
MaxPublish == 502

\* Health-check probes stop once the total_checks of the whole pool reach
\* this budget.
MaxProbes == 3

\* Connections that wait for a slot of the gateway at the same time.
MaxWaiting == 2

\* Latencies a caller of record_success reports.
Latencies == {100, 200}

\* ------------------------------------------------------------------------
\* health_score is the float (success_count / total_checks) * 100.  It is
\* kept as the exact fraction num/den in lowest terms, den > 0.
\* ------------------------------------------------------------------------

Abs(n) == IF n < 0 THEN -n ELSE n

RECURSIVE GCD(_, _)
GCD(m, n) == IF n = 0 THEN m ELSE GCD(n, m % n)

Frac(n, d) ==
    LET g == GCD(Abs(n), d)
    IN  [num |-> n \div g, den |-> d \div g]

Score(n) == Frac(n, 1)

ScoreGE(x, y) == x.num * y.den >= y.num * x.den
ScoreGT(x, y) == x.num * y.den >  y.num * x.den

\* pool.py:170 and pool.py:188-190
HealthScore(success_count, total) ==
    IF total # 0 THEN Frac(success_count * 100, total) ELSE Score(0)

\* ------------------------------------------------------------------------
\* Proxy records
\* ------------------------------------------------------------------------

NoRecord == [addr |-> "none"]

\* The fields of a record the pool computes with.  ip, port are the address;
\* protocol, country and the two timestamps are carried along unchanged by
\* every operation and left out.
_default_proxy(a, overrides) ==
    LET base == [addr              |-> a,
                 source            |-> "",
                 latency_ms        |-> 0,
                 health_score      |-> Score(0),
                 fail_count        |-> 0,
                 success_count     |-> 0,
                 total_checks      |-> 0,
                 consecutive_fails |-> 0]
    IN  [f \in DOMAIN base |->
            IF f \in DOMAIN overrides THEN overrides[f] ELSE base[f]]

\* proxy.update(kwargs) of add_proxy for a record that exists
UpdateProxy(p, kwargs) ==
    [f \in DOMAIN p |-> IF f \in DOMAIN kwargs THEN kwargs[f] ELSE p[f]]

\* Keyword arguments a caller of add_proxy passes.  The caller may pass
\* none, or every statistic as the fixture of test_strategies.py:152-185 does
\* (there: health_score 80, latency 200, success_count 8, fail_count 0,
\* total_checks 10; here the counts are 1, 0 and 2), or a negative score.
NoKwargs == <<>>

FixtureKwargs ==
    "health_score" :> Score(80) @@ "latency_ms" :> 200
      @@ "fail_count" :> 0 @@ "success_count" :> 1 @@ "total_checks" :> 2
      @@ "consecutive_fails" :> 0

NegativeKwargs ==
    "health_score" :> Score(-1) @@ "latency_ms" :> 0
      @@ "fail_count" :> 0 @@ "success_count" :> 0 @@ "total_checks" :> 0
      @@ "consecutive_fails" :> 0

Kwargs == {NoKwargs, FixtureKwargs, NegativeKwargs}

\* The keyword arguments used where the strategies are exercised.
SelectKwargs == {NoKwargs, FixtureKwargs}

\* ------------------------------------------------------------------------
\* State
\* ------------------------------------------------------------------------

VARIABLES
    proxy,      \* gengar:proxy:<addr>  -> record, NoRecord when the key is absent
    index,      \* gengar:pool:index
    healthy,    \* gengar:pool:healthy
    dead,       \* gengar:pool:dead
    stats,      \* gengar:stats hash
    session,    \* gengar:session:<id> -> pinned proxy and expiry, NoPin when absent
    rr_index,   \* gengar:rr:index, 0 when the key is absent (get_rr_index)
    config,     \* gengar:config:<key>
    domain_overrides,   \* gengar:domain_overrides hash, NoOverride when absent
    now,        \* time.time()
    smembers,   \* the order in which SMEMBERS enumerates the members of a set
    returned,   \* what the last select returned: an address, or NoProxy for None
    rr_run,     \* history: the round-robin selects made since the cursor was 0
    gw,         \* gateway: the forwarded request handle_http_request serves
    conn,       \* gateway: the CONNECT request handle_connect serves
    request_log,    \* gengar:request_log, newest entry first
    live_requests,  \* messages published on gengar:live_requests, oldest first
    blk,        \* is_blocked: the arguments of a call and what it returned
    scrape,     \* proxy-scraper: the scrape cycle scrape_and_store runs
    server,     \* gateway/main.py: the connection handlers and main's shutdown
    tasks       \* coroutines in flight, each between two store commands

pool_vars   == <<proxy, index, healthy, dead, stats>>
select_vars == <<session, rr_index, config, domain_overrides, now, smembers,
                 returned, rr_run>>
io_vars     == <<gw, conn, request_log, live_requests, blk, scrape, server, tasks>>
vars == <<proxy, index, healthy, dead, stats,
          session, rr_index, config, domain_overrides, now, smembers,
          returned, rr_run,
          gw, conn, request_log, live_requests, blk, scrape, server, tasks>>

\* The keys of the store the pool operations read and write.
Keys == [proxy |-> proxy, index |-> index, healthy |-> healthy,
         dead |-> dead, stats |-> stats]

Store(r) ==
    /\ proxy'   = r.proxy
    /\ index'   = r.index
    /\ healthy' = r.healthy
    /\ dead'    = r.dead
    /\ stats'   = r.stats

Present(r, a) == r.proxy[a] # NoRecord

RECURSIVE SumChecks(_, _)
SumChecks(r, S) ==
    IF S = {} THEN 0
    ELSE LET a == CHOOSE x \in S : TRUE
         IN  (IF Present(r, a) THEN r.proxy[a].total_checks ELSE 0)
             + SumChecks(r, S \ {a})

Budget(r) == SumChecks(r, Addr) < MaxChecks

\* ------------------------------------------------------------------------
\* ProxyPool: effect of each coroutine on the keys, run to completion
\* ------------------------------------------------------------------------

add_proxy(r, a, kwargs) ==
    LET p == IF Present(r, a) THEN UpdateProxy(r.proxy[a], kwargs)
             ELSE _default_proxy(a, kwargs)
        r1 == [r EXCEPT !.proxy[a] = p,
                        !.index    = @ \cup {a},
                        !.dead     = @ \ {a}]
    IN  IF ScoreGE(p.health_score, Score(0))
        THEN [r1 EXCEPT !.healthy = @ \cup {a}]
        ELSE r1

\* mark_dead that forgets the SREM on the healthy set
mark_dead_no_srem(r, a) ==
    [r EXCEPT !.dead = @ \cup {a}]

mark_dead(r, a) ==
    [r EXCEPT !.dead = @ \cup {a}, !.healthy = @ \ {a}]

\* record_success that forgets the SREM on the dead set
record_success_keeps_dead(r, a, latency_ms) ==
    IF ~Present(r, a) THEN r
    ELSE LET old   == r.proxy[a]
             succ  == old.success_count + 1
             total == old.total_checks + 1
             p     == [old EXCEPT !.success_count     = succ,
                                  !.total_checks      = total,
                                  !.consecutive_fails = 0,
                                  !.latency_ms        = latency_ms,
                                  !.health_score      = HealthScore(succ, total)]
         IN  [r EXCEPT !.proxy[a] = p,
                       !.healthy  = @ \cup {a}]

record_success(r, a, latency_ms) ==
    IF ~Present(r, a) THEN r
    ELSE LET old   == r.proxy[a]
             succ  == old.success_count + 1
             total == old.total_checks + 1
             p     == [old EXCEPT !.success_count     = succ,
                                  !.total_checks      = total,
                                  !.consecutive_fails = 0,
                                  !.latency_ms        = latency_ms,
                                  !.health_score      = HealthScore(succ, total)]
         IN  [r EXCEPT !.proxy[a] = p,
                       !.healthy  = @ \cup {a},
                       !.dead     = @ \ {a}]

\* record_failure whose threshold is > 3 instead of >= 3
record_failure_late(r, a) ==
    IF ~Present(r, a) THEN r
    ELSE LET old   == r.proxy[a]
             total == old.total_checks + 1
             p     == [old EXCEPT !.fail_count        = @ + 1,
                                  !.total_checks      = total,
                                  !.consecutive_fails = @ + 1,
                                  !.health_score      =
                                      HealthScore(old.success_count, total)]
             r1    == [r EXCEPT !.proxy[a] = p]
         IN  IF p.consecutive_fails > 3 THEN mark_dead(r1, a) ELSE r1

record_failure(r, a) ==
    IF ~Present(r, a) THEN r
    ELSE LET old   == r.proxy[a]
             total == old.total_checks + 1
             p     == [old EXCEPT !.fail_count        = @ + 1,
                                  !.total_checks      = total,
                                  !.consecutive_fails = @ + 1,
                                  !.health_score      =
                                      HealthScore(old.success_count, total)]
             r1    == [r EXCEPT !.proxy[a] = p]
         IN  IF p.consecutive_fails >= 3 THEN mark_dead(r1, a) ELSE r1

remove_proxy(r, a) ==
    [r EXCEPT !.proxy[a] = NoRecord,
              !.index    = @ \ {a},
              !.dead     = @ \ {a},
              !.healthy  = @ \ {a}]

\* flush_dead that leaves the flushed addresses in the index
flush_dead_keeps_index(r) ==
    IF r.dead = {} THEN r
    ELSE [r EXCEPT !.proxy = [a \in Addr |->
                                 IF a \in r.dead THEN NoRecord ELSE @[a]],
                   !.dead  = {}]

flush_dead(r) ==
    IF r.dead = {} THEN r
    ELSE [r EXCEPT !.proxy = [a \in Addr |->
                                 IF a \in r.dead THEN NoRecord ELSE @[a]],
                   !.index = @ \ r.dead,
                   !.dead  = {}]

incr_stat(r, field) ==
    [r EXCEPT !.stats[field] = @ + 1]

\* mark-block that leaves out the call of mark_dead
mark_block_no_mark_dead(r, a) ==
    incr_stat(record_failure(r, a), "blocks")

\* rotation-engine main.py: POST /mark-block
mark_block(r, a) ==
    incr_stat(mark_dead(record_failure(r, a), a), "blocks")

\* ------------------------------------------------------------------------
\* get_healthy_proxies
\* ------------------------------------------------------------------------

\* SMEMBERS returns a set in an order the store chooses; an order is a
\* sequence that holds every address once.
Orders ==
    {o \in [1..Cardinality(Addr) -> Addr] :
        \A i, j \in DOMAIN o : o[i] = o[j] => i = j}

\* a sort key that forgets the minus sign: ascending health_score
KeyLess_ascending(p, q) ==
    \/ ScoreGT(q.health_score, p.health_score)
    \/ /\ p.health_score = q.health_score
       /\ p.latency_ms < q.latency_ms

\* key=lambda x: (-x["health_score"], x["latency_ms"]) : p sorts before q
KeyLess(p, q) ==
    \/ ScoreGT(p.health_score, q.health_score)
    \/ /\ p.health_score = q.health_score
       /\ p.latency_ms < q.latency_ms

RECURSIVE Insert(_, _)
Insert(p, sorted) ==
    IF sorted = <<>> THEN <<p>>
    ELSE IF KeyLess(p, Head(sorted)) THEN <<p>> \o sorted
    ELSE <<Head(sorted)>> \o Insert(p, Tail(sorted))

\* list.sort is stable: records with equal keys keep their input order
RECURSIVE Sort(_)
Sort(list) ==
    IF list = <<>> THEN <<>>
    ELSE Insert(list[Len(list)], Sort(SubSeq(list, 1, Len(list) - 1)))

get_healthy_proxies(r, min_score, order) ==
    LET InHealthy(a) == a \in r.healthy
        members == SelectSeq(order, InHealthy)
        results == [i \in DOMAIN members |-> r.proxy[members[i]]]
        Keep(p) == p # NoRecord /\ ScoreGE(p.health_score, min_score)
    IN  Sort(SelectSeq(results, Keep))

\* the addresses of get_healthy_proxies() as the strategies call it
HealthyList(r) ==
    LET proxies == get_healthy_proxies(r, Score(0), smembers)
    IN  [i \in DOMAIN proxies |-> proxies[i].addr]

\* pool.py:146-150: SCARD of the index minus SCARD of the dead set, at least 0
healthy_count(r) ==
    LET total == Cardinality(r.index)
        n     == Cardinality(r.dead)
    IN  IF total - n > 0 THEN total - n ELSE 0

\* ------------------------------------------------------------------------
\* Pool operations as actions on the pool's keys
\* ------------------------------------------------------------------------

AddProxy(a, kwargs) ==
    Store(add_proxy(Keys, a, kwargs))

\* bulk_add builds each record with _default_proxy(ip, port, **p) where p
\* itself holds the keys "ip" and "port" (they were just read from it): the
\* call raises TypeError (multiple values for argument 'ip') before the
\* pipeline is executed, so nothing reaches the store.  An empty list
\* executes an empty pipeline and returns 0.
bulk_add(r, proxies) == r

BulkAdd(proxies) ==
    Store(bulk_add(Keys, proxies))

RecordSuccess(a, latency_ms) ==
    /\ Present(Keys, a) => Budget(Keys)
    /\ Store(record_success(Keys, a, latency_ms))

RecordFailure(a) ==
    /\ Present(Keys, a) => Budget(Keys)
    /\ Store(record_failure(Keys, a))

MarkDead(a) ==
    Store(mark_dead(Keys, a))

RemoveProxy(a) ==
    Store(remove_proxy(Keys, a))

FlushDead ==
    Store(flush_dead(Keys))

MarkBlock(a) ==
    /\ Present(Keys, a) => Budget(Keys)
    /\ stats.blocks < MaxBlocks
    /\ Store(mark_block(Keys, a))

\* Lists a caller passes to bulk_add: each element carries "ip" and "port".
BulkLists == {<<>>} \cup {<<a>> : a \in Addr}

\* ------------------------------------------------------------------------
\* Rotation strategies.  A proxy dict a strategy pins, persists or returns
\* is identified by its address: the strategies read only its ip and port.
\* ------------------------------------------------------------------------

NoProxy   == "none"
NoSession == ""
Sessions  == {"s"}
NoPin     == [proxy |-> NoProxy, expires |-> 0]

STRATEGY_MAP ==
    {"per-request", "per-session", "time-based", "on-block", "round-robin"}

\* Hosts of the requests; NoDomain is a request without target_domain.
NoDomain == ""
Domains  == {"a.example", "b.example"}

\* the host of the request the gateway serves
TargetDomain == "a.example"

\* hget answers None for a domain without an entry
NoOverride == [none |-> TRUE]

\* the clock stops here
MaxTime == 2
\* session_ttl values of a select context
MaxTTL == 2
\* rotation_interval values of a select context
MaxInterval == 2

\* what a select leaves alone besides its own keys
\* POST /next-proxy runs the select of the strategy that config
\* rotation_strategy names (_get_strategy).
Strategy(name) == config.rotation_strategy = name

SelectFrame ==
    UNCHANGED <<proxy, index, healthy, dead, stats, domain_overrides, now,
                smembers>>

PerRequestStrategy_select ==
    LET proxies == HealthyList(Keys)
    IN  /\ IF proxies = <<>> THEN returned' = NoProxy
           ELSE \E i \in DOMAIN proxies : returned' = proxies[i]
        /\ UNCHANGED <<session, rr_index, config>>
        /\ SelectFrame

\* per-session select that returns the pin without the SISMEMBER on dead
PerSessionStrategy_select_no_dead_check(session_id, ttl) ==
    LET cached  == IF session_id # NoSession THEN session[session_id] ELSE NoPin
        proxies == HealthyList(Keys)
    IN  /\ IF cached # NoPin
           THEN /\ returned' = cached.proxy
                /\ UNCHANGED session
           ELSE IF proxies = <<>>
           THEN /\ returned' = NoProxy
                /\ UNCHANGED session
           ELSE \E i \in DOMAIN proxies :
                /\ returned' = proxies[i]
                /\ session' = IF session_id # NoSession
                              THEN [session EXCEPT ![session_id] =
                                      [proxy |-> proxies[i], expires |-> now + ttl]]
                              ELSE session
        /\ UNCHANGED <<rr_index, config>>
        /\ SelectFrame

\* per-session select that sets the expiry again when it reads a live pin
PerSessionStrategy_select_refresh(session_id, ttl) ==
    LET cached  == IF session_id # NoSession THEN session[session_id] ELSE NoPin
        proxies == HealthyList(Keys)
    IN  /\ IF cached # NoPin /\ cached.proxy \notin dead
           THEN /\ returned' = cached.proxy
                /\ session' = [session EXCEPT ![session_id].expires = now + ttl]
           ELSE IF proxies = <<>>
           THEN /\ returned' = NoProxy
                /\ UNCHANGED session
           ELSE \E i \in DOMAIN proxies :
                /\ returned' = proxies[i]
                /\ session' = IF session_id # NoSession
                              THEN [session EXCEPT ![session_id] =
                                      [proxy |-> proxies[i], expires |-> now + ttl]]
                              ELSE session
        /\ UNCHANGED <<rr_index, config>>
        /\ SelectFrame

PerSessionStrategy_select(session_id, ttl) ==
    LET cached  == IF session_id # NoSession THEN session[session_id] ELSE NoPin
        proxies == HealthyList(Keys)
    IN  /\ IF cached # NoPin /\ cached.proxy \notin dead
           THEN /\ returned' = cached.proxy
                /\ UNCHANGED session
           ELSE IF proxies = <<>>
           THEN /\ returned' = NoProxy
                /\ UNCHANGED session
           ELSE \E i \in DOMAIN proxies :
                /\ returned' = proxies[i]
                /\ session' = IF session_id # NoSession
                              THEN [session EXCEPT ![session_id] =
                                      [proxy |-> proxies[i], expires |-> now + ttl]]
                              ELSE session
        /\ UNCHANGED <<rr_index, config>>
        /\ SelectFrame

\* time-based select that persists the new proxy but not last_rotation
TimeBasedStrategy_select_keeps_last(interval) ==
    LET last_rotation == config.time_based_last_rotation
        current_raw   == config.time_based_current_proxy
        proxies       == HealthyList(Keys)
    IN  /\ IF /\ current_raw # NoProxy
              /\ now - last_rotation < interval
              /\ current_raw \notin dead
           THEN /\ returned' = current_raw
                /\ UNCHANGED config
           ELSE IF proxies = <<>>
           THEN /\ returned' = NoProxy
                /\ UNCHANGED config
           ELSE \E i \in DOMAIN proxies :
                /\ returned' = proxies[i]
                /\ config' = [config EXCEPT
                                !.time_based_current_proxy = proxies[i]]
        /\ UNCHANGED <<session, rr_index>>
        /\ SelectFrame

TimeBasedStrategy_select(interval) ==
    LET last_rotation == config.time_based_last_rotation
        current_raw   == config.time_based_current_proxy
        proxies       == HealthyList(Keys)
    IN  /\ IF /\ current_raw # NoProxy
              /\ now - last_rotation < interval
              /\ current_raw \notin dead
           THEN /\ returned' = current_raw
                /\ UNCHANGED config
           ELSE IF proxies = <<>>
           THEN /\ returned' = NoProxy
                /\ UNCHANGED config
           ELSE \E i \in DOMAIN proxies :
                /\ returned' = proxies[i]
                /\ config' = [config EXCEPT
                                !.time_based_current_proxy = proxies[i],
                                !.time_based_last_rotation = now]
        /\ UNCHANGED <<session, rr_index>>
        /\ SelectFrame

\* on-block select that never looks at the dead set
OnBlockStrategy_select_no_dead_check ==
    LET current == config.on_block_current_proxy
        proxies == HealthyList(Keys)
    IN  /\ IF current # NoProxy
           THEN /\ returned' = current
                /\ UNCHANGED config
           ELSE IF proxies = <<>>
           THEN /\ returned' = NoProxy
                /\ UNCHANGED config
           ELSE /\ returned' = proxies[1]
                /\ config' = [config EXCEPT !.on_block_current_proxy = proxies[1]]
        /\ UNCHANGED <<session, rr_index>>
        /\ SelectFrame

OnBlockStrategy_select ==
    LET current == config.on_block_current_proxy
        proxies == HealthyList(Keys)
    IN  /\ IF current # NoProxy /\ current \notin dead
           THEN /\ returned' = current
                /\ UNCHANGED config
           ELSE IF proxies = <<>>
           THEN /\ returned' = NoProxy
                /\ UNCHANGED config
           ELSE /\ returned' = proxies[1]
                /\ config' = [config EXCEPT !.on_block_current_proxy = proxies[1]]
        /\ UNCHANGED <<session, rr_index>>
        /\ SelectFrame

\* round-robin select that reads the cursor modulo the list and never resets
RoundRobinStrategy_select_modulo ==
    LET proxies == HealthyList(Keys)
    IN  /\ IF proxies = <<>>
           THEN /\ returned' = NoProxy
                /\ UNCHANGED rr_index
           ELSE /\ returned' = proxies[(rr_index % Len(proxies)) + 1]
                /\ rr_index' = rr_index + 1
        /\ UNCHANGED <<session, config>>
        /\ SelectFrame

\* round-robin select that wraps to position 1 instead of 0
RoundRobinStrategy_select_wrap_to_one ==
    LET proxies == HealthyList(Keys)
        idx     == IF rr_index >= Len(proxies)
                   THEN (IF Len(proxies) > 1 THEN 1 ELSE 0)
                   ELSE rr_index
    IN  /\ IF proxies = <<>>
           THEN /\ returned' = NoProxy
                /\ UNCHANGED rr_index
           ELSE /\ returned' = proxies[idx + 1]
                /\ rr_index' = idx + 1
        /\ UNCHANGED <<session, config>>
        /\ SelectFrame

RoundRobinStrategy_select ==
    LET proxies == HealthyList(Keys)
        idx     == IF rr_index >= Len(proxies) THEN 0 ELSE rr_index
    IN  /\ IF proxies = <<>>
           THEN /\ returned' = NoProxy
                /\ UNCHANGED rr_index
           ELSE /\ returned' = proxies[idx + 1]
                /\ rr_index' = idx + 1
        /\ UNCHANGED <<session, config>>
        /\ SelectFrame

\* Time passes; a session key written with ex=ttl is gone once its ttl is over.
Tick ==
    /\ now < MaxTime
    /\ now' = now + 1
    /\ session' = [s \in Sessions |->
                     IF session[s] # NoPin /\ session[s].expires <= now + 1
                     THEN NoPin ELSE session[s]]
    /\ UNCHANGED <<proxy, index, healthy, dead, stats,
                   rr_index, config, domain_overrides, smembers, returned>>

\* ------------------------------------------------------------------------
\* History of the round-robin selects: the healthy list at the first select
\* (cursor 0) and the addresses returned since, for as long as the healthy
\* list stays what it was and for at most two rounds.
\* ------------------------------------------------------------------------

NoRun == [ok |-> TRUE, base |-> <<>>, out |-> <<>>]

RecordRun ==
    rr_run' =
        IF ~rr_run.ok \/ returned' = NoProxy THEN rr_run
        ELSE IF rr_run.out = <<>>
        THEN IF rr_index = 0
             THEN [ok |-> TRUE, base |-> HealthyList(Keys), out |-> <<returned'>>]
             ELSE [rr_run EXCEPT !.ok = FALSE]
        ELSE IF Len(rr_run.out) < 2 * Len(rr_run.base)
        THEN [rr_run EXCEPT !.out = Append(@, returned')]
        ELSE [ok |-> FALSE, base |-> <<>>, out |-> <<>>]

WatchRun ==
    rr_run' =
        IF rr_run.ok /\ rr_run.out # <<>> /\ HealthyList(Keys') # rr_run.base
        THEN [ok |-> FALSE, base |-> <<>>, out |-> <<>>]
        ELSE rr_run

\* ------------------------------------------------------------------------
\* gateway/handler.py: block detection.  A text is the sequence of its
\* characters.
\* ------------------------------------------------------------------------

BLOCK_STATUS_CODES == {403, 429, 503, 407}

\* the patterns hold no regex metacharacter: each matches its own text
BLOCK_PATTERNS ==
    << <<"c", "l", "o", "u", "d", "f", "l", "a", "r", "e">>,
       <<"c", "a", "p", "t", "c", "h", "a">>,
       <<"a", "c", "c", "e", "s", "s", " ", "d", "e", "n", "i", "e", "d">>,
       <<"b", "l", "o", "c", "k", "e", "d">>,
       <<"u", "n", "u", "s", "u", "a", "l", " ", "t", "r", "a", "f", "f", "i", "c">>,
       <<"r", "a", "t", "e", " ", "l", "i", "m", "i", "t">>,
       <<"b", "a", "n", "n", "e", "d">>,
       <<"f", "o", "r", "b", "i", "d", "d", "e", "n">> >>

CHALLENGE_URL_PATTERNS ==
    << <<"/", "c", "d", "n", "-", "c", "g", "i", "/", "c", "h", "a", "l", "l", "e", "n", "g", "e">>,
       <<"/", "c", "h", "a", "l", "l", "e", "n", "g", "e">>,
       <<"c", "a", "p", "t", "c", "h", "a">>,
       <<"r", "e", "c", "a", "p", "t", "c", "h", "a">> >>

MAX_RETRIES == 3

\* body[:5000]
BODY_PREFIX == 5000

UpperCase == <<"A", "B", "C", "D", "E", "F", "G", "H", "I", "J", "K", "L", "M", "N", "O", "P", "Q", "R", "S", "T", "U", "V", "W", "X", "Y", "Z">>

LowerCase == <<"a", "b", "c", "d", "e", "f", "g", "h", "i", "j", "k", "l", "m", "n", "o", "p", "q", "r", "s", "t", "u", "v", "w", "x", "y", "z">>

\* re.IGNORECASE on the letters A-Z: a character and its lower-case form
ToLower(ch) ==
    IF \E i \in DOMAIN UpperCase : UpperCase[i] = ch
    THEN LowerCase[CHOOSE i \in DOMAIN UpperCase : UpperCase[i] = ch]
    ELSE ch

\* pattern.search(text): the pattern occurs at some position of the text
Search(pattern, text) ==
    \E i \in 1..(Len(text) - Len(pattern) + 1) :
        \A k \in DOMAIN pattern : ToLower(text[i + k - 1]) = pattern[k]

Prefix(text, n) == SubSeq(text, 1, IF Len(text) < n THEN Len(text) ELSE n)

\* redirect_url is None when the response has no Location header
NoLocation == [none |-> TRUE]

\* is_blocked that searches the whole body
is_blocked_whole_body(status_code, body, redirect_url) ==
    IF status_code \in BLOCK_STATUS_CODES THEN TRUE
    ELSE IF \E p \in DOMAIN BLOCK_PATTERNS :
               Search(BLOCK_PATTERNS[p], body)
    THEN TRUE
    ELSE IF redirect_url # NoLocation /\ redirect_url # <<>>
    THEN \E p \in DOMAIN CHALLENGE_URL_PATTERNS :
            Search(CHALLENGE_URL_PATTERNS[p], redirect_url)
    ELSE FALSE

is_blocked(status_code, body, redirect_url) ==
    IF status_code \in BLOCK_STATUS_CODES THEN TRUE
    ELSE IF \E p \in DOMAIN BLOCK_PATTERNS :
               Search(BLOCK_PATTERNS[p], Prefix(body, BODY_PREFIX))
    THEN TRUE
    ELSE IF redirect_url # NoLocation /\ redirect_url # <<>>
    THEN \E p \in DOMAIN CHALLENGE_URL_PATTERNS :
            Search(CHALLENGE_URL_PATTERNS[p], redirect_url)
    ELSE FALSE

\* ------------------------------------------------------------------------
\* gateway/handler.py: one attempt of handle_http_request, from the request
\* sent through the proxy to the classification of what came back
\* ------------------------------------------------------------------------

Pad(n) == [i \in 1..n |-> " "]

\* Response bodies the upstream sends, by name.
Bodies ==
    {"hello", "captcha", "denied", "near", "late", "cut", "empty"}

BodyText(body) ==
    CASE body = "hello"   -> <<"h", "e", "l", "l", "o">>
      [] body = "captcha" -> <<"P", "l", "e", "a", "s", "e", " ", "s", "o", "l", "v", "e", " ", "t", "h", "e", " ", "c", "a", "p", "t", "c", "h", "a">>
      [] body = "denied"  -> <<"A", "C", "C", "E", "S", "S", " ", "D", "E", "N", "I", "E", "D">>
      [] body = "near"    -> <<"f", "o", "r", "b", "i", "d", " ", "d", "e", "n", " ", "b", "l", "o", "c", "k">>
      [] body = "late"    -> Pad(BODY_PREFIX - 6) \o <<"B", "a", "n", "n", "e", "d">>
      [] body = "cut"     -> Pad(BODY_PREFIX - 5) \o <<"B", "a", "n", "n", "e", "d">>
      [] body = "empty"   -> <<>>

\* Location headers of a response: none, empty, or a URL.
Locations ==
    {NoLocation, <<>>,
     <<"/", "h", "o", "m", "e">>,
     <<"/", "c", "d", "n", "-", "c", "g", "i", "/", "c", "h", "a", "l", "l", "e", "n", "g", "e", "-", "p", "l", "a", "t", "f", "o", "r", "m">>,
     <<"/", "C", "h", "a", "l", "l", "e", "n", "g", "e", "?", "i", "d", "=", "1">>,
     <<"h", "t", "t", "p", "s", ":", "/", "/", "g", ".", "c", "o", "/", "r", "e", "C", "A", "P", "T", "C", "H", "A">>}

Statuses == {200, 301, 403, 404, 407, 429, 500, 503}

\* What the request through the proxy ends in: a response, a
\* httpx.TimeoutException, or another exception.
Responses ==
    [kind : {"response"}, status : Statuses, body : Bodies,
     location : Locations]

Outcomes == Responses \cup {[kind |-> "timeout"], [kind |-> "error"]}

NoHeaders == [location |-> NoLocation]

\* handler.py:142-193: the locals after the try block
forward_attempt_error_not_blocked(outcome) ==
    IF outcome.kind = "response"
    THEN [status_code  |-> outcome.status,
          resp_headers |-> [location |-> outcome.location],
          resp_body    |-> outcome.body,
          blocked      |-> is_blocked(outcome.status, BodyText(outcome.body),
                                      outcome.location),
          error_msg    |-> ""]
    ELSE [status_code  |-> 502,
          resp_headers |-> NoHeaders,
          resp_body    |-> "empty",
          blocked      |-> FALSE,
          error_msg    |-> outcome.kind]

forward_attempt(outcome) ==
    IF outcome.kind = "response"
    THEN [status_code  |-> outcome.status,
          resp_headers |-> [location |-> outcome.location],
          resp_body    |-> outcome.body,
          blocked      |-> is_blocked(outcome.status, BodyText(outcome.body),
                                      outcome.location),
          error_msg    |-> ""]
    ELSE [status_code  |-> 502,
          resp_headers |-> NoHeaders,
          resp_body    |-> "empty",
          blocked      |-> TRUE,
          error_msg    |-> outcome.kind]

\* one attempt on its own: the outcome is given, the classification follows
ForwardAttempt ==
    /\ blk.pc = "call"
    /\ blk' = [pc |-> "done", outcome |-> blk.outcome,
               result |-> forward_attempt(blk.outcome)]
    /\ UNCHANGED <<pool_vars, select_vars, gw, conn, request_log,
                   live_requests, scrape, server, tasks>>

\* ------------------------------------------------------------------------
\* gateway/handler.py: the live log
\* ------------------------------------------------------------------------

\* LTRIM key start stop, both ends included, counted from 0
LTrim(list, start, stop) ==
    SubSeq(list, start + 1, IF Len(list) < stop + 1 THEN Len(list) ELSE stop + 1)

Log == [request_log |-> request_log, live_requests |-> live_requests]

\* log_request_to_redis without the LTRIM
log_request_to_redis_no_trim(r, entry) ==
    [request_log   |-> <<entry>> \o r.request_log,
     live_requests |-> Append(r.live_requests, entry)]

\* LPUSH, LTRIM 0 499, PUBLISH
log_request_to_redis(r, entry) ==
    [request_log   |-> LTrim(<<entry>> \o r.request_log, 0, 499),
     live_requests |-> Append(r.live_requests, entry)]

\* a handler publishes an entry and nothing else runs meanwhile; the entry
\* carries the number of the publish in place of its timestamp
LogRequestToRedis ==
    /\ Len(live_requests) < MaxPublish
    /\ LET r == log_request_to_redis(Log, [ts |-> Len(live_requests) + 1])
       IN  /\ request_log'   = r.request_log
           /\ live_requests' = r.live_requests
    /\ UNCHANGED <<pool_vars, select_vars, gw, conn, blk, scrape, server, tasks>>

\* ------------------------------------------------------------------------
\* gateway/handler.py: handle_http_request, one step per awaited call
\* ------------------------------------------------------------------------

NoResult == [status_code |-> 0, resp_headers |-> NoHeaders,
             resp_body |-> "empty", blocked |-> FALSE, error_msg |-> ""]

\* x-session-id headers a client sends
SessionHeaders == {NoSession} \cup Sessions

\* What the proxies answer to the forwarded request.
ForwardOutcomes ==
    {[kind |-> "response", status |-> 200, body |-> "hello",
      location |-> NoLocation],
     [kind |-> "response", status |-> 403, body |-> "denied",
      location |-> NoLocation],
     [kind |-> "timeout"]}

\* POST /next-proxy without a domain override: the select of the configured
\* strategy with the configured session_ttl and rotation_interval
\* _get_strategy: STRATEGY_MAP.get(name, PerRequestStrategy)
StrategyClass(name) == IF name \in STRATEGY_MAP THEN name ELSE "per-request"

\* the dispatch of next_proxy without the lookup of the domain override
Dispatch_global_only(target_domain) ==
    StrategyClass(config.rotation_strategy)

\* main.py:147-155: the strategy that serves a request for target_domain
Dispatch(target_domain) ==
    LET override == IF target_domain # NoDomain
                    THEN domain_overrides[target_domain]
                    ELSE NoOverride
    IN  IF override # NoOverride
        THEN StrategyClass(override.strategy)
        ELSE StrategyClass(config.rotation_strategy)

next_proxy(session_id, target_domain) ==
    LET strategy == Dispatch(target_domain)
    IN  \/ /\ strategy = "per-request"
           /\ PerRequestStrategy_select
        \/ /\ strategy = "per-session"
           /\ PerSessionStrategy_select(session_id, MaxTTL)
        \/ /\ strategy = "time-based"
           /\ TimeBasedStrategy_select(MaxInterval)
        \/ /\ strategy = "on-block"
           /\ OnBlockStrategy_select
        \/ /\ strategy = "round-robin"
           /\ RoundRobinStrategy_select

\* POST /next-proxy on its own
NextProxy(session_id, target_domain) ==
    /\ next_proxy(session_id, target_domain)
    /\ UNCHANGED <<rr_run, io_vars>>

\* Strategy names a caller of POST /api/domain-overrides passes: the body's
\* strategy is any string.
OverrideNames == STRATEGY_MAP \cup {"sticky"}

\* api-server main.py: POST /api/domain-overrides
AddDomainOverride(domain, name) ==
    /\ domain_overrides' = [domain_overrides EXCEPT
                               ![domain] = [strategy |-> name]]
    /\ UNCHANGED <<pool_vars, session, rr_index, config, now, smembers,
                   returned, rr_run, io_vars>>

\* api-server main.py: DELETE /api/domain-overrides/{domain}
DeleteDomainOverride(domain) ==
    /\ domain_overrides' = [domain_overrides EXCEPT ![domain] = NoOverride]
    /\ UNCHANGED <<pool_vars, session, rr_index, config, now, smembers,
                   returned, rr_run, io_vars>>

GwFrame == UNCHANGED <<rr_run, conn, blk, scrape, server, tasks>>

\* a client sends a request to forward
HandleHttpRequest(session_id) ==
    /\ gw.pc = "idle"
    /\ gw' = [gw EXCEPT !.pc = "next", !.session_id = session_id,
                        !.attempt = 1]
    /\ UNCHANGED <<pool_vars, select_vars, conn, request_log, live_requests,
                   blk, scrape, server, tasks>>

\* get_next_proxy whose answer is used without the "if not proxy_info"
GetNextProxy_unchecked ==
    /\ gw.pc = "next"
    /\ next_proxy(gw.session_id, TargetDomain)
    /\ gw' = [gw EXCEPT !.pc = "upstream", !.proxy = returned']
    /\ UNCHANGED <<request_log, live_requests>>
    /\ GwFrame

\* handler.py:133-140
GetNextProxy ==
    /\ gw.pc = "next"
    /\ next_proxy(gw.session_id, TargetDomain)
    /\ gw' = IF returned' = NoProxy
             THEN [gw EXCEPT !.pc = "done",
                             !.responses = Append(@,
                                 [status  |-> 502,
                                  headers |-> NoHeaders,
                                  body    |-> "no healthy proxies available"])]
             ELSE [gw EXCEPT !.pc = "upstream", !.proxy = returned']
    /\ UNCHANGED <<request_log, live_requests>>
    /\ GwFrame

\* handler.py:142-195
Upstream(outcome) ==
    /\ gw.pc = "upstream"
    /\ gw' = [gw EXCEPT !.pc = "log",
                        !.res = forward_attempt(outcome),
                        !.upstreams = Append(@,
                            [proxy |-> gw.proxy, outcome |-> outcome])]
    /\ UNCHANGED <<pool_vars, select_vars, conn, request_log, live_requests,
                   blk, scrape, server, tasks>>

\* the client response handle_http_request returns after an attempt
Returned(res) ==
    [status |-> res.status_code, headers |-> res.resp_headers,
     body |-> res.resp_body]

\* an attempt that is not blocked returns before it is logged
LogAttempt_blocked_only ==
    /\ gw.pc = "log"
    /\ LET log_entry == [proxy_ip |-> gw.proxy,
                         status   |-> gw.res.status_code,
                         blocked  |-> gw.res.blocked,
                         attempt  |-> gw.attempt,
                         error    |-> gw.res.error_msg]
           r == IF gw.res.blocked THEN log_request_to_redis(Log, log_entry)
                ELSE Log
       IN  /\ request_log'   = r.request_log
           /\ live_requests' = r.live_requests
    /\ gw' = IF gw.res.blocked
             THEN [gw EXCEPT !.pc = "mark"]
             ELSE [gw EXCEPT !.pc = "done",
                             !.responses = Append(@, Returned(gw.res))]
    /\ UNCHANGED <<pool_vars, select_vars, conn, blk, scrape, server, tasks>>

\* handler.py:198-216 and, for an attempt that is not blocked, 239
LogAttempt ==
    /\ gw.pc = "log"
    /\ LET log_entry == [proxy_ip |-> gw.proxy,
                         status   |-> gw.res.status_code,
                         blocked  |-> gw.res.blocked,
                         attempt  |-> gw.attempt,
                         error    |-> gw.res.error_msg]
           r == log_request_to_redis(Log, log_entry)
       IN  /\ request_log'   = r.request_log
           /\ live_requests' = r.live_requests
    /\ gw' = IF gw.res.blocked
             THEN [gw EXCEPT !.pc = "mark"]
             ELSE [gw EXCEPT !.pc = "done",
                             !.responses = Append(@, Returned(gw.res))]
    /\ UNCHANGED <<pool_vars, select_vars, conn, blk, scrape, server, tasks>>

\* the last blocked attempt returns "all retries exhausted" (handler.py:241)
\* in place of what the attempt got
MarkProxyBlocked_exhausted ==
    /\ gw.pc = "mark"
    /\ Store(mark_block(Keys, gw.proxy))
    /\ gw' = IF gw.attempt < MAX_RETRIES
             THEN [gw EXCEPT !.pc = "next", !.attempt = @ + 1,
                             !.marks = Append(@, gw.proxy)]
             ELSE [gw EXCEPT !.pc = "done",
                             !.marks = Append(@, gw.proxy),
                             !.responses = Append(@,
                                 [status  |-> 502,
                                  headers |-> NoHeaders,
                                  body    |-> "all retries exhausted"])]
    /\ UNCHANGED <<select_vars, conn, request_log, live_requests, blk, scrape, server, tasks>>

\* handler.py:218-236: mark_proxy_blocked, then retry or return
MarkProxyBlocked ==
    /\ gw.pc = "mark"
    /\ Store(mark_block(Keys, gw.proxy))
    /\ gw' = IF gw.attempt < MAX_RETRIES
             THEN [gw EXCEPT !.pc = "next", !.attempt = @ + 1,
                             !.marks = Append(@, gw.proxy)]
             ELSE [gw EXCEPT !.pc = "done",
                             !.marks = Append(@, gw.proxy),
                             !.responses = Append(@, Returned(gw.res))]
    /\ UNCHANGED <<select_vars, conn, request_log, live_requests, blk, scrape, server, tasks>>

\* The same steps when the store is down.  gw.store_failed keeps that it
\* happened.

\* handler.py:69-89: the rotation engine cannot reach the store and answers
\* 500, or cannot be reached; get_next_proxy returns None
GetNextProxyFails ==
    /\ gw.pc = "next"
    /\ gw' = [gw EXCEPT !.pc = "done",
                        !.store_failed = TRUE,
                        !.responses = Append(@,
                            [status  |-> 502,
                             headers |-> NoHeaders,
                             body    |-> "no healthy proxies available"])]
    /\ UNCHANGED <<pool_vars, select_vars, conn, request_log, live_requests,
                   blk, scrape, server, tasks>>

\* handler.py:213-216: log_request_to_redis raises after done of its three
\* commands; the except clause passes
LogAttemptFails(done) ==
    /\ gw.pc = "log"
    /\ LET log_entry == [proxy_ip |-> gw.proxy,
                         status   |-> gw.res.status_code,
                         blocked  |-> gw.res.blocked,
                         attempt  |-> gw.attempt,
                         error    |-> gw.res.error_msg]
           pushed  == <<log_entry>> \o request_log
       IN  /\ request_log' = CASE done = 0 -> request_log
                               [] done = 1 -> pushed
                               [] done = 2 -> LTrim(pushed, 0, 499)
           /\ live_requests' = live_requests
    /\ gw' = IF gw.res.blocked
             THEN [gw EXCEPT !.pc = "mark", !.store_failed = TRUE]
             ELSE [gw EXCEPT !.pc = "done",
                             !.store_failed = TRUE,
                             !.responses = Append(@, Returned(gw.res))]
    /\ UNCHANGED <<pool_vars, select_vars, conn, blk, scrape, server, tasks>>

\* handler.py:92-107: the post to /mark-block raises or is answered 500;
\* mark_proxy_blocked passes
MarkProxyBlockedFails ==
    /\ gw.pc = "mark"
    /\ gw' = IF gw.attempt < MAX_RETRIES
             THEN [gw EXCEPT !.pc = "next", !.attempt = @ + 1,
                             !.store_failed = TRUE]
             ELSE [gw EXCEPT !.pc = "done",
                             !.store_failed = TRUE,
                             !.responses = Append(@, Returned(gw.res))]
    /\ UNCHANGED <<pool_vars, select_vars, conn, request_log, live_requests,
                   blk, scrape, server, tasks>>

\* ------------------------------------------------------------------------
\* gateway/main.py: handle_connect, one step per awaited call.  What was
\* written to the client is kept in conn.client, oldest first.
\* ------------------------------------------------------------------------

Established == "200 Connection Established"
BadGateway  == "502 Bad Gateway"

ConnFrame == UNCHANGED <<rr_run, gw, request_log, live_requests, blk, scrape, server, tasks>>

ConnOnly ==
    UNCHANGED <<pool_vars, select_vars, gw, request_log, live_requests, blk,
                scrape, server, tasks>>

\* "continue": the next attempt, or the end of the for loop
Continue(c) ==
    IF c.attempt < 3 THEN [c EXCEPT !.pc = "next", !.attempt = @ + 1]
    ELSE [c EXCEPT !.pc = "reply502"]

\* a client sends CONNECT host:port
HandleConnect ==
    /\ conn.pc = "idle"
    /\ conn' = [conn EXCEPT !.pc = "next", !.attempt = 1]
    /\ ConnOnly

\* main.py:126-131
ConnectGetNextProxy ==
    /\ conn.pc = "next"
    /\ next_proxy(NoSession, TargetDomain)
    /\ conn' = IF returned' = NoProxy
               THEN [conn EXCEPT !.pc = "reply502"]
               ELSE [conn EXCEPT !.pc = "open", !.proxy = returned']
    /\ ConnFrame

\* main.py:133-141: open_connection succeeds, or raises or times out
ConnectOpen(ok) ==
    /\ conn.pc = "open"
    /\ conn' = IF ok THEN [conn EXCEPT !.pc = "send"]
               ELSE [conn EXCEPT !.pc = "mark",
                                 !.upstreams = Append(@,
                                     [proxy |-> conn.proxy,
                                      result |-> "connect failed"])]
    /\ ConnOnly

\* main.py:143-147: write and drain of the CONNECT line; a drain that raises
\* is caught by the outer except (main.py:201-212), which continues
ConnectSend(ok) ==
    /\ conn.pc = "send"
    /\ conn' = IF ok THEN [conn EXCEPT !.pc = "read"]
               ELSE Continue([conn EXCEPT !.upstreams = Append(@,
                                     [proxy |-> conn.proxy,
                                      result |-> "send failed"])])
    /\ ConnOnly

\* main.py:149-184 and 196-199: the status line and headers are read, or the
\* read raises or times out; on a status line with 200 the log task is
\* created and the 200 line written to the client
ConnectRead(result) ==
    /\ conn.pc = "read"
    /\ LET c == [conn EXCEPT !.upstreams = Append(@,
                                 [proxy |-> conn.proxy, result |-> result])]
       IN  conn' = IF result = "200"
                   THEN [c EXCEPT !.pc = "drain",
                                  !.log_tasks = @ + 1,
                                  !.client = Append(@, Established)]
                   ELSE [c EXCEPT !.pc = "mark"]
    /\ ConnOnly

\* main.py:185-195: drain to the client, then the relay until either side
\* closes; a drain that raises is caught by the outer except, which continues
ConnectDrain(ok) ==
    /\ conn.pc = "drain"
    /\ conn' = IF ok THEN [conn EXCEPT !.pc = "done", !.relayed = TRUE]
               ELSE Continue(conn)
    /\ ConnOnly

\* mark_proxy_blocked, then continue
ConnectMark ==
    /\ conn.pc = "mark"
    /\ Store(mark_block(Keys, conn.proxy))
    /\ conn' = Continue([conn EXCEPT !.marks = Append(@,
                             [attempt |-> conn.attempt, proxy |-> conn.proxy])])
    /\ UNCHANGED <<select_vars, gw, request_log, live_requests, blk, scrape, server, tasks>>

\* main.py:214-218
ConnectReply502 ==
    /\ conn.pc = "reply502"
    /\ conn' = [conn EXCEPT !.pc = "done", !.client = Append(@, BadGateway)]
    /\ ConnOnly

\* ------------------------------------------------------------------------
\* proxy-scraper/main.py: parse_proxy_line, fetch_source and the merge,
\* dedupe and persist steps of scrape_and_store.  A line is the sequence of
\* its characters.
\* ------------------------------------------------------------------------

Digit == <<"0", "1", "2", "3", "4", "5", "6", "7", "8", "9">>

IsDigit(ch) == \E i \in DOMAIN Digit : Digit[i] = ch

DigitValue(ch) == (CHOOSE i \in DOMAIN Digit : Digit[i] = ch) - 1

Whitespace == {" ", "\t"}

\* str.strip()
RECURSIVE LStrip(_)
LStrip(text) ==
    IF text # <<>> /\ Head(text) \in Whitespace THEN LStrip(Tail(text))
    ELSE text

RECURSIVE RStrip(_)
RStrip(text) ==
    IF text # <<>> /\ text[Len(text)] \in Whitespace
    THEN RStrip(SubSeq(text, 1, Len(text) - 1))
    ELSE text

strip(text) == RStrip(LStrip(text))

\* the pieces of a text between the occurrences of a separator
RECURSIVE Split(_, _)
Split(text, sep) ==
    IF \E i \in DOMAIN text : text[i] = sep
    THEN LET i == CHOOSE i \in DOMAIN text :
                     /\ text[i] = sep
                     /\ \A j \in 1..(i - 1) : text[j] # sep
         IN  <<SubSeq(text, 1, i - 1)>>
                 \o Split(SubSeq(text, i + 1, Len(text)), sep)
    ELSE <<text>>

\* \d{lo,hi}
Digits(text, lo, hi) ==
    /\ Len(text) >= lo
    /\ Len(text) <= hi
    /\ \A i \in DOMAIN text : IsDigit(text[i])

NoMatch == [ip |-> <<>>, port |-> <<>>]

\* IP_PORT_RE.match: ^(\d{1,3}(?:\.\d{1,3}){3}):(\d{2,5})$ ; group 1 and
\* group 2, or no match
IP_PORT_RE(text) ==
    LET halves == Split(text, ":")
    IN  IF /\ Len(halves) = 2
           /\ LET octets == Split(halves[1], ".")
              IN  /\ Len(octets) = 4
                  /\ \A k \in DOMAIN octets : Digits(octets[k], 1, 3)
           /\ Digits(halves[2], 2, 5)
        THEN [ip |-> halves[1], port |-> halves[2]]
        ELSE NoMatch

\* int(port_str)
RECURSIVE int(_)
int(digits) ==
    IF digits = <<>> THEN 0
    ELSE int(SubSeq(digits, 1, Len(digits) - 1)) * 10
            + DigitValue(digits[Len(digits)])

\* the decimal text of a port in an f-string
RECURSIVE str(_)
str(n) ==
    IF n < 10 THEN <<Digit[n + 1]>>
    ELSE str(n \div 10) \o <<Digit[(n % 10) + 1]>>

None == [ip |-> <<>>, port |-> 0, source |-> ""]

parse_proxy_line(line, source) ==
    LET m == IP_PORT_RE(strip(line))
    IN  IF m = NoMatch THEN None
        ELSE LET port == int(m.port)
             IN  IF port < 1 \/ port > 65535 THEN None
                 ELSE [ip |-> m.ip, port |-> port, source |-> source]

\* f"{p['ip']}:{p['port']}"
Key(p) == p.ip \o <<":">> \o str(p.port)

\* url.split("/")[2] of each entry of PROXY_SOURCES, in order
PROXY_SOURCES ==
    <<"api.proxyscrape.com", "raw.githubusercontent.com",
      "raw.githubusercontent.com", "raw.githubusercontent.com",
      "raw.githubusercontent.com">>

\* Lines a source serves, by name.
Lines ==
    {"plain", "padded", "second", "third", "zeros", "bad", "high", "port0",
     "over", "octets", "digit", "url", "blank", "note", "six", "long"}

LineText(line) ==
    CASE line = "plain"  -> <<"1", ".", "1", ".", "1", ".", "1", ":", "8", "0", "8", "0">>
      [] line = "padded" -> <<" ", " ", "1", ".", "1", ".", "1", ".", "1", ":", "0", "8", "0", "8", "0", "\t">>
      [] line = "second" -> <<"2", ".", "2", ".", "2", ".", "2", ":", "3", "1", "2", "8">>
      [] line = "third"  -> <<"3", ".", "3", ".", "3", ".", "3", ":", "8", "0">>
      [] line = "zeros"  -> <<"3", ".", "3", ".", "3", ".", "3", ":", "0", "0", "8", "0">>
      [] line = "bad"    -> <<"b", "a", "d">>
      [] line = "high"   -> <<"2", ".", "2", ".", "2", ".", "2", ":", "7", "0", "0", "0", "0">>
      [] line = "port0"  -> <<"2", ".", "2", ".", "2", ".", "2", ":", "0", "0">>
      [] line = "over"   -> <<"2", ".", "2", ".", "2", ".", "2", ":", "6", "5", "5", "3", "6">>
      [] line = "octets" -> <<"3", ".", "3", ".", "3", ":", "8", "0">>
      [] line = "digit"  -> <<"3", ".", "3", ".", "3", ".", "3", ":", "8">>
      [] line = "url"    -> <<"h", "t", "t", "p", ":", "/", "/", "3", ".", "3", ".", "3", ".", "3", ":", "8", "0">>
      [] line = "blank"  -> <<>>
      [] line = "note"   -> <<"3", ".", "3", ".", "3", ".", "3", ":", "8", "0", " ", "#", " ", "f", "a", "s", "t">>
      [] line = "six"    -> <<"1", ".", "1", ".", "1", ".", "1", ":", "8", "0", "8", "0", "8", "0">>
      [] line = "long"   -> <<"1", "1", "1", "1", ".", "1", ".", "1", ".", "1", ":", "8", "0", "8", "0">>

\* What one source serves, by name: the lines of its text in order;
\* "error" is a fetch that raised.
Texts == {"s5", "padded", "third", "zeros", "error"}

TextLines(text) ==
    CASE text = "s5"     -> <<"plain", "plain", "bad", "high">>
      [] text = "padded" -> <<"padded", "second", "port0", "over">>
      [] text = "third"  -> <<"third", "octets", "digit", "url", "blank">>
      [] text = "zeros"  -> <<"zeros", "note", "six", "long", "second">>
      [] text = "error"  -> <<>>

\* What the five sources serve in one cycle.
Fetches ==
    {<<"s5", "error", "error", "error", "error">>,
     <<"padded", "s5", "third", "zeros", "error">>,
     <<"zeros", "third", "error", "s5", "padded">>,
     <<"error", "error", "error", "error", "error">>}

\* fetch_source: the parsed lines of one source, in order
fetch_source(text, source_name) ==
    LET parsed == [i \in DOMAIN TextLines(text) |->
                      parse_proxy_line(LineText(TextLines(text)[i]),
                                       source_name)]
    IN  SelectSeq(parsed, LAMBDA p : p # None)

\* all_proxies: the results of gather, extended in the order of PROXY_SOURCES
RECURSIVE Merge(_, _)
Merge(results, k) ==
    IF k > Len(results) THEN <<>>
    ELSE fetch_source(results[k], PROXY_SOURCES[k]) \o Merge(results, k + 1)

\* dedupe that keeps the last occurrence of an address
RECURSIVE Unique_keeps_last(_, _)
Unique_keeps_last(all_proxies, seen) ==
    IF all_proxies = <<>> THEN <<>>
    ELSE LET p   == all_proxies[Len(all_proxies)]
             key == Key(p)
             front == SubSeq(all_proxies, 1, Len(all_proxies) - 1)
         IN  IF key \in seen THEN Unique_keeps_last(front, seen)
             ELSE Unique_keeps_last(front, seen \cup {key}) \o <<p>>

\* main.py:193-200
RECURSIVE Unique(_, _)
Unique(all_proxies, seen) ==
    IF all_proxies = <<>> THEN <<>>
    ELSE LET p   == Head(all_proxies)
             key == Key(p)
         IN  IF key \in seen THEN Unique(Tail(all_proxies), seen)
             ELSE <<p>> \o Unique(Tail(all_proxies), seen \cup {key})

\* The characters of the addresses the store is modelled for.
AddrText(a) ==
    CASE a = "1.1.1.1:8080" -> <<"1", ".", "1", ".", "1", ".", "1", ":", "8", "0", "8", "0">>
      [] a = "2.2.2.2:3128" -> <<"2", ".", "2", ".", "2", ".", "2", ":", "3", "1", "2", "8">>
      [] a = "3.3.3.3:80" -> <<"3", ".", "3", ".", "3", ".", "3", ":", "8", "0">>

AddrOf(key) == CHOOSE a \in Addr : AddrText(a) = key

\* pool.py:222-223: addr.rsplit(":", 1) and _proxy_key(ip, int(port)), as
\* the address whose record key flush_dead deletes for a member of dead
FlushedKey(addr) ==
    LET text  == AddrText(addr)
        colon == CHOOSE i \in DOMAIN text :
                     /\ text[i] = ":"
                     /\ \A j \in (i + 1)..Len(text) : text[j] # ":"
        ip    == SubSeq(text, 1, colon - 1)
        port  == SubSeq(text, colon + 1, Len(text))
    IN  AddrOf(ip \o <<":">> \o str(int(port)))

\* pool.py:214-226: the value flush_dead returns
flush_dead_count(r) == Cardinality(r.dead)

\* api-server main.py:191-204: POST /api/pool/flush, its effect on the keys
\* and the "flushed" field of its answer
api_flush_dead(r) ==
    IF r.dead = {} THEN r
    ELSE [r EXCEPT !.proxy = [a \in Addr |->
                                 IF a \in r.dead THEN NoRecord ELSE @[a]],
                   !.index = @ \ r.dead,
                   !.dead  = {}]

api_flush_dead_count(r) == Cardinality(r.dead)

\* the record parse_proxy_line builds, as the pool holds it
ScrapedRecord(p) ==
    [_default_proxy(AddrOf(Key(p)), NoKwargs) EXCEPT !.source = p.source]

\* main.py:213-220 with SET in place of SETNX
RECURSIVE persist_set(_, _)
persist_set(r, unique) ==
    IF unique = <<>> THEN r
    ELSE LET p == Head(unique)
             a == AddrOf(Key(p))
         IN  persist_set([r EXCEPT !.proxy[a] = ScrapedRecord(p),
                                   !.index    = @ \cup {a}],
                         Tail(unique))

\* main.py:213-220: SETNX of the record, SADD to the index
RECURSIVE persist(_, _)
persist(r, unique) ==
    IF unique = <<>> THEN r
    ELSE LET p == Head(unique)
             a == AddrOf(Key(p))
         IN  persist([r EXCEPT !.proxy[a] = IF Present(r, a) THEN @
                                            ELSE ScrapedRecord(p),
                               !.index    = @ \cup {a}],
                     Tail(unique))

ScrapeFrame ==
    UNCHANGED <<select_vars, gw, conn, request_log, live_requests, blk,
                server, tasks>>

\* main.py:184-210: the five fetches, the merge and the dedupe
ScrapeFetch(results) ==
    /\ scrape.pc = "idle"
    /\ scrape' = [scrape EXCEPT !.pc = "persist",
                                !.results = results,
                                !.unique = Unique(Merge(results, 1), {})]
    /\ UNCHANGED pool_vars
    /\ ScrapeFrame

\* main.py:212-220: the pipeline
ScrapePersist ==
    /\ scrape.pc = "persist"
    /\ Store(persist(Keys, scrape.unique))
    /\ scrape' = [scrape EXCEPT !.pc = "idle", !.results = <<>>,
                                !.unique = <<>>]
    /\ ScrapeFrame

\* ------------------------------------------------------------------------
\* proxy-scraper/health_checker.py: one probe of check_single_proxy
\* ------------------------------------------------------------------------

\* health_checker.py:105-120: the probe answered 200 with an origin
probe_success(r, a, latency_ms) ==
    IF ~Present(r, a) THEN r
    ELSE LET old   == r.proxy[a]
             succ  == old.success_count + 1
             total == old.total_checks + 1
             p     == [old EXCEPT !.success_count     = succ,
                                  !.total_checks      = total,
                                  !.consecutive_fails = 0,
                                  !.latency_ms        = latency_ms,
                                  !.health_score      = HealthScore(succ, total)]
         IN  [r EXCEPT !.proxy[a] = p,
                       !.healthy  = @ \cup {a},
                       !.dead     = @ \ {a}]

\* health_checker.py:135-162: the probe failed
probe_failure(r, a) ==
    IF ~Present(r, a) THEN r
    ELSE LET old   == r.proxy[a]
             total == old.total_checks + 1
             p     == [old EXCEPT !.fail_count        = @ + 1,
                                  !.total_checks      = total,
                                  !.consecutive_fails = @ + 1,
                                  !.health_score      =
                                      HealthScore(old.success_count, total)]
             r1    == [r EXCEPT !.proxy[a] = p]
         IN  IF p.consecutive_fails >= 3 THEN remove_proxy(r1, a)
             ELSE [r1 EXCEPT !.dead = @ \cup {a}, !.healthy = @ \ {a}]

\* health_checker.py:168-206: check_all_proxies probes every member of the
\* index that has a record; passed holds the addresses whose probe answers
\* 200 with an origin.  The probes of different addresses touch different
\* keys, so they are applied one after the other.
RECURSIVE CheckEach(_, _, _)
CheckEach(r, members, passed) ==
    IF members = {} THEN r
    ELSE LET a  == CHOOSE x \in members : TRUE
             r1 == IF a \in passed THEN probe_success(r, a, 100)
                   ELSE probe_failure(r, a)
         IN  CheckEach(r1, members \ {a}, passed)

Probed(r) == {a \in r.index : Present(r, a)}

check_all_proxies(r, passed) == CheckEach(r, Probed(r), passed)

\* main.py:72
MIN_POOL_SIZE == 20

\* main.py:158-174: the record fetch_webshare_proxies builds
WebshareRecord(a) ==
    [_default_proxy(a, NoKwargs) EXCEPT !.source = "webshare",
                                        !.health_score = Score(50)]

\* main.py:239-245: SET of the record, SADD to the index
RECURSIVE webshare_store(_, _)
webshare_store(r, ws_proxies) ==
    IF ws_proxies = <<>> THEN r
    ELSE LET a == Head(ws_proxies)
         IN  webshare_store([r EXCEPT !.proxy[a] = WebshareRecord(a),
                                      !.index    = @ \cup {a}],
                            Tail(ws_proxies))

\* main.py:212-245: persist, health check of the whole pool, and the
\* Webshare fallback when fewer than MIN_POOL_SIZE probes passed
scrape_and_store(r, unique, passed, ws_proxies) ==
    LET r1 == persist(r, unique)
        r2 == check_all_proxies(r1, passed)
        stats_healthy == Cardinality(Probed(r1) \cap passed)
    IN  IF stats_healthy < MIN_POOL_SIZE
        THEN webshare_store(r2, ws_proxies)
        ELSE r2

\* What the Webshare API lists: nothing (the fallback is disabled or the
\* call fails), or one proxy.
Webshare == {<<>>, <<"3.3.3.3:80">>}

\* a health check of the whole pool stays within the budget of checks
CheckBudget(r) == SumChecks(r, Addr) + Cardinality(Addr) <= MaxChecks

\* one scrape cycle, run to completion
ScrapeAndStore(results, passed, ws_proxies) ==
    /\ scrape.pc = "idle"
    /\ CheckBudget(Keys)
    /\ LET unique == Unique(Merge(results, 1), {})
           after  == scrape_and_store(Keys, unique, passed, ws_proxies)
       IN  /\ Store(after)
           /\ scrape' = [scrape EXCEPT !.removed =
                             @ \cup {a \in index : ~Present(after, a)}]
    /\ ScrapeFrame

\* one periodic health check of the whole pool, run to completion
CheckAllProxies(passed) ==
    /\ scrape.pc = "idle"
    /\ CheckBudget(Keys)
    /\ LET after == check_all_proxies(Keys, passed)
       IN  /\ Store(after)
           /\ scrape' = [scrape EXCEPT !.removed =
                             @ \cup {a \in index : ~Present(after, a)}]
    /\ ScrapeFrame

\* check_all_proxies probes the members of the index that have a record;
\* here the probes run between two scrape cycles
ProbeSuccess(a, latency_ms) ==
    /\ scrape.pc = "idle"
    /\ a \in index
    /\ Present(Keys, a)
    /\ SumChecks(Keys, Addr) < MaxProbes
    /\ Store(probe_success(Keys, a, latency_ms))
    /\ UNCHANGED scrape
    /\ ScrapeFrame

ProbeFailure(a) ==
    /\ scrape.pc = "idle"
    /\ a \in index
    /\ Present(Keys, a)
    /\ SumChecks(Keys, Addr) < MaxProbes
    /\ Store(probe_failure(Keys, a))
    /\ scrape' = [scrape EXCEPT !.removed =
                      IF Present(probe_failure(Keys, a), a) THEN @
                      ELSE @ \cup {a}]
    /\ ScrapeFrame

\* ------------------------------------------------------------------------
\* gateway/main.py: handle_client under connection_semaphore, and the
\* shutdown of main.  The handlers run the same code, so the server keeps
\* how many of them are at each place: waiting for the semaphore, handling
\* (between the increment and the decrement of active_connections), and
\* closing (in the finally block after the decrement, the slot still held).
\* ------------------------------------------------------------------------

MAX_CONNECTIONS == 200

\* for _ in range(60)
DRAIN_POLLS == 60

ServerOnly ==
    UNCHANGED <<pool_vars, select_vars, gw, conn, request_log, live_requests,
                blk, scrape, tasks>>

\* the process runs until main returns
Running == server.pc # "stopped"

\* start_server calls handle_client for a connection; the handler reaches
\* "async with connection_semaphore"
Accept ==
    /\ Running
    /\ server.accepting
    /\ server.waiting < MaxWaiting
    /\ server' = [server EXCEPT !.waiting = @ + 1]
    /\ ServerOnly

\* main.py:247-248: the semaphore is acquired and active_connections
\* incremented, with no await in between
Acquire ==
    /\ Running
    /\ server.waiting > 0
    /\ server.semaphore > 0
    /\ server' = [server EXCEPT !.waiting = @ - 1,
                                !.semaphore = @ - 1,
                                !.handling = @ + 1,
                                !.active_connections = @ + 1]
    /\ ServerOnly

\* a handler can leave the try block unless it relays a CONNECT tunnel that
\* both peers keep open
Finishing == Running /\ server.handling > server.tunnels

\* an exit of the try block that skips the decrement of the finally block
Exit_keeps_count(srv) ==
    [srv EXCEPT !.handling = @ - 1, !.closing = @ + 1]

\* main.py:317-318: every exit of the try block runs the finally block,
\* which decrements active_connections and then awaits wait_closed
Exit(srv) ==
    [srv EXCEPT !.handling = @ - 1,
                !.closing = @ + 1,
                !.active_connections = @ - 1]

\* main.py:285-308: the response of handle_http_request was written
ResponseSent ==
    /\ Finishing
    /\ server' = Exit(server)
    /\ ServerOnly

\* main.py:255-264: handle_connect returned
ConnectFinished ==
    /\ Finishing
    /\ server' = Exit(server)
    /\ ServerOnly

\* main.py:266-283: /health answered
HealthAnswered ==
    /\ Finishing
    /\ server' = Exit(server)
    /\ ServerOnly

\* main.py:310-316: parse error, timeout or another exception; 502 written
ClientError ==
    /\ Finishing
    /\ server' = Exit(server)
    /\ ServerOnly

\* main.py:319-323: wait_closed returned; leaving "async with" releases
\* the semaphore
Closed ==
    /\ Running
    /\ server.closing > 0
    /\ server' = [server EXCEPT !.closing = @ - 1, !.semaphore = @ + 1]
    /\ ServerOnly

\* ------------------------------------------------------------------------
\* Gateway, live log and scraper: the state before any request or cycle
\* ------------------------------------------------------------------------

GwIdle ==
    [pc |-> "idle", session_id |-> NoSession, attempt |-> 0,
     proxy |-> NoProxy, res |-> NoResult,
     upstreams |-> <<>>, marks |-> <<>>, responses |-> <<>>,
     store_failed |-> FALSE]

ConnIdle ==
    [pc |-> "idle", attempt |-> 0, proxy |-> NoProxy, upstreams |-> <<>>,
     marks |-> <<>>, client |-> <<>>, relayed |-> FALSE, log_tasks |-> 0]

BlkIdle == [pc |-> "idle"]

\* removed: the addresses the health checker has removed so far
ScrapeIdle ==
    [pc |-> "idle", results |-> <<>>, unique |-> <<>>, removed |-> {}]

\* main.py:374-378: signal_handler sets the flag and the stop event; main
\* resumes in a later step of the event loop
Signal ==
    /\ server.pc = "serving"
    /\ server' = [server EXCEPT !.shutting_down = TRUE, !.pc = "stopping"]
    /\ ServerOnly

\* main.py:383-384: stop_event.wait() returns and "async with server" is
\* left, which closes the listening socket
ServerClose ==
    /\ server.pc = "stopping"
    /\ server' = [server EXCEPT !.accepting = FALSE, !.pc = "drain"]
    /\ ServerOnly

\* main.py:396-399: a round of the drain loop that finds a connection
\* active and sleeps 0.5 s
DrainPoll ==
    /\ server.pc = "drain"
    /\ server.active_connections # 0
    /\ server.polls < DRAIN_POLLS
    /\ server' = [server EXCEPT !.polls = @ + 1]
    /\ ServerOnly

\* main.py:396-403: the loop ends, by its break or after its last round;
\* both shared clients are closed and main returns
CloseClients ==
    /\ server.pc = "drain"
    /\ server.active_connections = 0 \/ server.polls = DRAIN_POLLS
    /\ server' = [server EXCEPT !.clients = "closed", !.pc = "stopped"]
    /\ ServerOnly

\* main() has started the server: no connection yet
ServerStarted ==
    [waiting |-> 0, handling |-> 0, closing |-> 0, active_connections |-> 0,
     tunnels |-> 0, semaphore |-> MAX_CONNECTIONS, accepting |-> TRUE,
     shutting_down |-> FALSE, pc |-> "serving", polls |-> 0,
     clients |-> "open"]

\* ------------------------------------------------------------------------
\* Coroutines that interleave at the awaited store commands
\* ------------------------------------------------------------------------

MaxTasks == 2

Tasks == 1..MaxTasks

\* a task that was not started
Idle == [op |-> "idle", a |-> "none", cmds |-> <<>>, rec |-> NoRecord,
         read |-> {}, proxies |-> <<>>, idx |-> 0, ret |-> "none"]

NoTasks == [t \in Tasks |-> Idle]

InitIO ==
    /\ gw            = GwIdle
    /\ conn          = ConnIdle
    /\ request_log   = <<>>
    /\ live_requests = <<>>
    /\ blk           = BlkIdle
    /\ scrape        = ScrapeIdle
    /\ server        = ServerStarted
    /\ tasks         = NoTasks

\* ------------------------------------------------------------------------
\* Specifications
\* ------------------------------------------------------------------------

InitPool ==
    /\ proxy   = [a \in Addr |-> NoRecord]
    /\ index   = {}
    /\ healthy = {}
    /\ dead    = {}
    /\ stats   = [blocks |-> 0]
    /\ domain_overrides = [d \in Domains |-> NoOverride]

\* lifespan() seeds rotation_strategy from ROTATION_STRATEGY
InitSelect ==
    /\ InitPool
    /\ session  = [s \in Sessions |-> NoPin]
    /\ rr_index = 0
    /\ config \in [rotation_strategy : STRATEGY_MAP,
                   time_based_current_proxy : {NoProxy},
                   time_based_last_rotation : {0},
                   on_block_current_proxy   : {NoProxy}]
    /\ now      = 0
    /\ smembers \in Orders
    /\ returned = NoProxy
    /\ rr_run   = NoRun
    /\ InitIO

\* The pool on its own: every operation of ProxyPool with every input.
Init ==
    /\ InitPool
    /\ session  = [s \in Sessions |-> NoPin]
    /\ rr_index = 0
    /\ config   = [rotation_strategy        |-> "per-request",
                   time_based_current_proxy |-> NoProxy,
                   time_based_last_rotation |-> 0,
                   on_block_current_proxy   |-> NoProxy]
    /\ now      = 0
    /\ smembers = CHOOSE o \in Orders : TRUE
    /\ returned = NoProxy
    /\ rr_run   = NoRun
    /\ InitIO

Next ==
    \/ \E a \in Addr, kwargs \in Kwargs :
          AddProxy(a, kwargs) /\ UNCHANGED <<select_vars, io_vars>>
    \/ \E l \in BulkLists : BulkAdd(l) /\ UNCHANGED <<select_vars, io_vars>>
    \/ \E a \in Addr, l \in Latencies :
          RecordSuccess(a, l) /\ UNCHANGED <<select_vars, io_vars>>
    \/ \E a \in Addr : RecordFailure(a) /\ UNCHANGED <<select_vars, io_vars>>
    \/ \E a \in Addr : MarkDead(a) /\ UNCHANGED <<select_vars, io_vars>>
    \/ \E a \in Addr : RemoveProxy(a) /\ UNCHANGED <<select_vars, io_vars>>
    \/ FlushDead /\ UNCHANGED <<select_vars, io_vars>>

Spec == Init /\ [][Next]_vars

\* The pool operations and the POST /mark-block requests of the gateway.
NextBlock ==
    \/ Next
    \/ \E a \in Addr : MarkBlock(a) /\ UNCHANGED <<select_vars, io_vars>>

SpecBlock == Init /\ [][NextBlock]_vars

\* The strategies over a pool that add_proxy, mark_dead, remove_proxy and
\* flush_dead change between the selects.
PoolFrame ==
    /\ UNCHANGED <<session, rr_index, config, domain_overrides, now,
                   smembers, returned>>
    /\ UNCHANGED io_vars
    /\ WatchRun

PoolChange ==
    \/ \E a \in Addr, kwargs \in SelectKwargs : AddProxy(a, kwargs) /\ PoolFrame
    \/ \E a \in Addr : MarkDead(a) /\ PoolFrame
    \/ \E a \in Addr : RemoveProxy(a) /\ PoolFrame
    \/ FlushDead /\ PoolFrame

NextSelect ==
    \/ PoolChange
    \/ Tick /\ UNCHANGED <<rr_run, io_vars>>
    \/ Strategy("per-request") /\ PerRequestStrategy_select /\ UNCHANGED <<rr_run, io_vars>>
    \/ /\ Strategy("per-session")
       /\ \E sid \in Sessions \cup {NoSession}, ttl \in 1..MaxTTL :
             PerSessionStrategy_select(sid, ttl)
       /\ UNCHANGED <<rr_run, io_vars>>
    \/ /\ Strategy("time-based")
       /\ \E interval \in 1..MaxInterval : TimeBasedStrategy_select(interval)
       /\ UNCHANGED <<rr_run, io_vars>>
    \/ Strategy("on-block") /\ OnBlockStrategy_select /\ UNCHANGED <<rr_run, io_vars>>
    \/ Strategy("round-robin") /\ RoundRobinStrategy_select /\ RecordRun /\ UNCHANGED io_vars

SpecSelect == InitSelect /\ [][NextSelect]_vars

\* One strategy at a time.
NextSession ==
    \/ PoolChange
    \/ Tick /\ UNCHANGED <<rr_run, io_vars>>
    \/ /\ \E sid \in Sessions \cup {NoSession}, ttl \in 1..MaxTTL :
             PerSessionStrategy_select(sid, ttl)
       /\ UNCHANGED <<rr_run, io_vars>>

\* random.choice picks any element of the healthy list, so one enumeration
\* order of SMEMBERS stands for all
InitSession ==
    /\ InitSelect
    /\ Strategy("per-session")
    /\ smembers = CHOOSE o \in Orders : TRUE

SpecSession == InitSession /\ [][NextSession]_vars

NextTime ==
    \/ PoolChange
    \/ Tick /\ UNCHANGED <<rr_run, io_vars>>
    \/ /\ \E interval \in 1..MaxInterval : TimeBasedStrategy_select(interval)
       /\ UNCHANGED <<rr_run, io_vars>>

InitTime == InitSelect /\ Strategy("time-based")

SpecTime == InitTime /\ [][NextTime]_vars

NextOnBlock ==
    \/ PoolChange
    \/ OnBlockStrategy_select /\ UNCHANGED <<rr_run, io_vars>>

InitOnBlock == InitSelect /\ Strategy("on-block")

SpecOnBlock == InitOnBlock /\ [][NextOnBlock]_vars

NextRoundRobin ==
    \/ PoolChange
    \/ RoundRobinStrategy_select /\ RecordRun /\ UNCHANGED io_vars

InitRoundRobin == InitSelect /\ Strategy("round-robin")

SpecRoundRobin == InitRoundRobin /\ [][NextRoundRobin]_vars

\* is_blocked and the classification of an attempt, over every outcome
InitBlocked ==
    /\ InitPool
    /\ session  = [s \in Sessions |-> NoPin]
    /\ rr_index = 0
    /\ config   = [rotation_strategy        |-> "per-request",
                   time_based_current_proxy |-> NoProxy,
                   time_based_last_rotation |-> 0,
                   on_block_current_proxy   |-> NoProxy]
    /\ now      = 0
    /\ smembers = CHOOSE o \in Orders : TRUE
    /\ returned = NoProxy
    /\ rr_run   = NoRun
    /\ gw            = GwIdle
    /\ conn          = ConnIdle
    /\ request_log   = <<>>
    /\ live_requests = <<>>
    /\ blk \in [pc : {"call"}, outcome : Outcomes]
    /\ scrape        = ScrapeIdle
    /\ server        = ServerStarted
    /\ tasks         = NoTasks

NextBlocked == ForwardAttempt

SpecBlocked == InitBlocked /\ [][NextBlocked]_vars

\* the live log under publishes that run one at a time
NextLog == LogRequestToRedis

SpecLog == Init /\ [][NextLog]_vars

\* One forwarded request over a pool that add_proxy, mark_dead and
\* remove_proxy shaped before it arrived.
PoolBefore ==
    /\ gw.pc = "idle"
    /\ \/ \E a \in Addr, kwargs \in SelectKwargs : AddProxy(a, kwargs)
       \/ \E a \in Addr : MarkDead(a)
       \/ \E a \in Addr : RemoveProxy(a)
    /\ UNCHANGED <<select_vars, io_vars>>

InitForward ==
    /\ InitPool
    /\ session  = [s \in Sessions |-> NoPin]
    /\ rr_index = 0
    /\ config \in [rotation_strategy : STRATEGY_MAP,
                   time_based_current_proxy : {NoProxy},
                   time_based_last_rotation : {0},
                   on_block_current_proxy   : {NoProxy}]
    /\ now      = 0
    /\ smembers = CHOOSE o \in Orders : TRUE
    /\ returned = NoProxy
    /\ rr_run   = NoRun
    /\ InitIO

NextForward ==
    \/ PoolBefore
    \/ \E session_id \in SessionHeaders : HandleHttpRequest(session_id)
    \/ GetNextProxy
    \/ \E outcome \in ForwardOutcomes : Upstream(outcome)
    \/ LogAttempt
    \/ MarkProxyBlocked

SpecForward == InitForward /\ [][NextForward]_vars

\* One CONNECT request over a pool shaped before it arrived.
PoolBeforeConnect ==
    /\ conn.pc = "idle"
    /\ \/ \E a \in Addr, kwargs \in SelectKwargs : AddProxy(a, kwargs)
       \/ \E a \in Addr : MarkDead(a)
       \/ \E a \in Addr : RemoveProxy(a)
    /\ UNCHANGED <<select_vars, io_vars>>

NextConnect ==
    \/ PoolBeforeConnect
    \/ HandleConnect
    \/ ConnectGetNextProxy
    \/ \E ok \in BOOLEAN : ConnectOpen(ok)
    \/ \E ok \in BOOLEAN : ConnectSend(ok)
    \/ \E result \in {"200", "407", "read failed"} : ConnectRead(result)
    \/ \E ok \in BOOLEAN : ConnectDrain(ok)
    \/ ConnectMark
    \/ ConnectReply502

SpecConnect == InitForward /\ [][NextConnect]_vars


\* Scrape cycles and health-check probes over an initially empty pool.
NextScrape ==
    \/ \E results \in Fetches : ScrapeFetch(results)
    \/ ScrapePersist
    \/ \E a \in Addr : ProbeSuccess(a, 100)
    \/ \E a \in Addr : ProbeFailure(a)

SpecScrape == Init /\ [][NextScrape]_vars

\* Dispatch of next-proxy requests: a pool that add_proxy filled with two
\* proxies, any global strategy name ROTATION_STRATEGY may hold, and domain
\* overrides for a.example that come and go between the requests;
\* b.example never has one.
Seeded == {"1.1.1.1:8080", "2.2.2.2:3128"}

InitDispatch ==
    /\ proxy   = [a \in Addr |-> IF a \in Seeded
                                 THEN _default_proxy(a, NoKwargs)
                                 ELSE NoRecord]
    /\ index   = Seeded
    /\ healthy = Seeded
    /\ dead    = {}
    /\ stats   = [blocks |-> 0]
    /\ domain_overrides = [d \in Domains |-> NoOverride]
    /\ session  = [s \in Sessions |-> NoPin]
    /\ rr_index = 0
    /\ config \in [rotation_strategy : OverrideNames,
                   time_based_current_proxy : {NoProxy},
                   time_based_last_rotation : {0},
                   on_block_current_proxy   : {NoProxy}]
    /\ now      = 0
    /\ smembers = CHOOSE o \in Orders : TRUE
    /\ returned = NoProxy
    /\ rr_run   = NoRun
    /\ InitIO

NextDispatch ==
    \/ \E name \in OverrideNames : AddDomainOverride(TargetDomain, name)
    \/ DeleteDomainOverride(TargetDomain)
    \/ \E sid \in Sessions \cup {NoSession}, d \in Domains \cup {NoDomain} :
          NextProxy(sid, d)

SpecDispatch == InitDispatch /\ [][NextDispatch]_vars

\* Session pins: per-session selects for a session over two healthy proxies,
\* with the clock advancing and proxies marked dead in between.
InitPin == InitDispatch /\ Strategy("per-session")

NextPin ==
    \/ Tick /\ UNCHANGED <<rr_run, io_vars>>
    \/ \E a \in Addr : MarkDead(a) /\ PoolFrame
    \/ /\ \E sid \in Sessions, ttl \in 1..MaxTTL :
             PerSessionStrategy_select(sid, ttl)
       /\ UNCHANGED <<rr_run, io_vars>>

SpecPin == InitPin /\ [][NextPin]_vars

\* The gateway serving connections, without a termination signal.
NextServe ==
    \/ Accept
    \/ Acquire
    \/ ResponseSent
    \/ ConnectFinished
    \/ HealthAnswered
    \/ ClientError
    \/ Closed

SpecServe == Init /\ [][NextServe]_vars

\* The gateway around a termination signal.  It starts either with no
\* connection or with all slots but one taken by CONNECT tunnels that stay
\* open, and at most MaxWaiting further connections are in flight at a time.
LongLived == MAX_CONNECTIONS - 1

InFlight == server.waiting + server.handling + server.closing

InitShutdown ==
    /\ InitPool
    /\ session  = [s \in Sessions |-> NoPin]
    /\ rr_index = 0
    /\ config   = [rotation_strategy        |-> "per-request",
                   time_based_current_proxy |-> NoProxy,
                   time_based_last_rotation |-> 0,
                   on_block_current_proxy   |-> NoProxy]
    /\ now      = 0
    /\ smembers = CHOOSE o \in Orders : TRUE
    /\ returned = NoProxy
    /\ rr_run   = NoRun
    /\ gw            = GwIdle
    /\ conn          = ConnIdle
    /\ request_log   = <<>>
    /\ live_requests = <<>>
    /\ blk           = BlkIdle
    /\ scrape        = ScrapeIdle
    /\ tasks         = NoTasks
    /\ \E n \in {0, LongLived} :
          server = [ServerStarted EXCEPT !.handling = n,
                                         !.tunnels = n,
                                         !.active_connections = n,
                                         !.semaphore = MAX_CONNECTIONS - n]

MainStep == ServerClose \/ DrainPoll \/ CloseClients

NextShutdown ==
    \/ Accept /\ InFlight < server.tunnels + MaxWaiting
    \/ Acquire
    \/ ResponseSent
    \/ ConnectFinished
    \/ HealthAnswered
    \/ ClientError
    \/ Closed
    \/ Signal
    \/ ServerClose
    \/ DrainPoll
    \/ CloseClients

SpecShutdown == InitShutdown /\ [][NextShutdown]_vars /\ WF_vars(MainStep)

\* the steps of handle_http_request: each awaited call returns or raises
ForwardStep ==
    \/ GetNextProxy
    \/ \E outcome \in ForwardOutcomes : Upstream(outcome)
    \/ LogAttempt
    \/ MarkProxyBlocked

\* the steps of handle_connect
ConnectStep ==
    \/ ConnectGetNextProxy
    \/ \E ok \in BOOLEAN : ConnectOpen(ok)
    \/ \E ok \in BOOLEAN : ConnectSend(ok)
    \/ \E result \in {"200", "407", "read failed"} : ConnectRead(result)
    \/ \E ok \in BOOLEAN : ConnectDrain(ok)
    \/ ConnectMark
    \/ ConnectReply502

\* One client request, forwarded or CONNECT, over the seeded pool; its
\* handler is scheduled until it returns.
NextRequest ==
    \/ \E session_id \in SessionHeaders :
          HandleHttpRequest(session_id) /\ conn.pc = "idle"
    \/ HandleConnect /\ gw.pc = "idle"
    \/ GetNextProxy
    \/ \E outcome \in ForwardOutcomes : Upstream(outcome)
    \/ LogAttempt
    \/ MarkProxyBlocked
    \/ ConnectGetNextProxy
    \/ \E ok \in BOOLEAN : ConnectOpen(ok)
    \/ \E ok \in BOOLEAN : ConnectSend(ok)
    \/ \E result \in {"200", "407", "read failed"} : ConnectRead(result)
    \/ \E ok \in BOOLEAN : ConnectDrain(ok)
    \/ ConnectMark
    \/ ConnectReply502

SpecRequest ==
    /\ InitDispatch
    /\ [][NextRequest]_vars
    /\ WF_vars(ForwardStep)
    /\ WF_vars(ConnectStep)

\* One forwarded request over the seeded pool, with a store that can fail
\* at each call that reaches it.
NextStoreFailure ==
    \/ \E session_id \in SessionHeaders : HandleHttpRequest(session_id)
    \/ GetNextProxy
    \/ GetNextProxyFails
    \/ \E outcome \in ForwardOutcomes : Upstream(outcome)
    \/ LogAttempt
    \/ \E done \in 0..2 : LogAttemptFails(done)
    \/ MarkProxyBlocked
    \/ MarkProxyBlockedFails

SpecStoreFailure == InitDispatch /\ [][NextStoreFailure]_vars

\* POST /mark-block requests between health results and mark_dead calls,
\* over the seeded pool.
NextMarkBlock ==
    \/ \E a \in Addr : MarkBlock(a) /\ UNCHANGED <<select_vars, io_vars>>
    \/ \E a \in Addr, l \in Latencies :
          RecordSuccess(a, l) /\ UNCHANGED <<select_vars, io_vars>>
    \/ \E a \in Addr : RecordFailure(a) /\ UNCHANGED <<select_vars, io_vars>>
    \/ \E a \in Addr : MarkDead(a) /\ UNCHANGED <<select_vars, io_vars>>
    \/ \E a \in Addr : RemoveProxy(a) /\ UNCHANGED <<select_vars, io_vars>>

SpecMarkBlock == InitDispatch /\ [][NextMarkBlock]_vars

\* Completed scrape cycles, completed health checks and pool operations.
CycleFetches ==
    {<<"s5", "error", "error", "error", "error">>,
     <<"padded", "s5", "third", "zeros", "error">>}

NextCycle ==
    \/ \E results \in CycleFetches, passed \in SUBSET Addr,
          ws_proxies \in Webshare :
             ScrapeAndStore(results, passed, ws_proxies)
    \/ \E passed \in SUBSET Addr : CheckAllProxies(passed)
    \/ \E a \in Addr :
          AddProxy(a, NoKwargs) /\ UNCHANGED <<select_vars, io_vars>>
    \/ \E a \in Addr : MarkDead(a) /\ UNCHANGED <<select_vars, io_vars>>
    \/ \E a \in Addr : RemoveProxy(a) /\ UNCHANGED <<select_vars, io_vars>>
    \/ FlushDead /\ UNCHANGED <<select_vars, io_vars>>

SpecCycle == Init /\ [][NextCycle]_vars

\* the record a coroutine writes back, computed from the one it read
Written(op, a, raw) ==
    LET r == [Keys EXCEPT !.proxy[a] = raw]
    IN  CASE op = "add_proxy"      -> add_proxy(r, a, NoKwargs).proxy[a]
          [] op = "record_success" -> record_success(r, a, 100).proxy[a]
          [] op = "probe_success"  -> probe_success(r, a, 100).proxy[a]
          [] op \in {"record_failure", "mark_block", "probe_failure"} ->
                 record_failure(r, a).proxy[a]
          [] OTHER                 -> raw

\* pool.py:197-201 and health_checker.py:63-66
MarkDeadCmds == <<"SADD dead", "SREM healthy">>

\* The store commands a coroutine awaits one after the other once it has read
\* the record: pool.py:59-75 (add_proxy), 157-174 (record_success), 176-195
\* (record_failure), main.py:177-193 (mark-block), health_checker.py:105-160
\* with save_proxy 56-62 (the probe's success and failure paths).
Program(op, a, raw) ==
    LET p        == Written(op, a, raw)
        absent   == raw = NoRecord
        failure  == IF absent THEN <<>>
                    ELSE <<"SET">> \o (IF p.consecutive_fails >= 3
                                       THEN MarkDeadCmds ELSE <<>>)
    IN  CASE op = "add_proxy" ->
                 <<"SET", "SADD index", "SREM dead">>
                 \o (IF ScoreGE(p.health_score, Score(0))
                     THEN <<"SADD healthy">> ELSE <<>>)
          [] op \in {"record_success", "probe_success"} ->
                 IF absent THEN <<>> ELSE <<"SET", "SADD healthy", "SREM dead">>
          [] op = "record_failure" -> failure
          [] op = "mark_block" -> failure \o MarkDeadCmds \o <<"HINCRBY blocks">>
          [] op = "probe_failure" ->
                 IF absent THEN <<>>
                 ELSE <<"SET">> \o (IF p.consecutive_fails >= 3
                                    THEN <<"EXEC remove">> ELSE MarkDeadCmds)

\* the first awaited command of each coroutine
FirstCmds(op) ==
    CASE op = "mark_dead"    -> MarkDeadCmds
      [] op = "remove_proxy" -> <<"EXEC remove">>
      [] op = "flush_dead"   -> <<"SMEMBERS dead">>
      [] op = "select"       -> <<"get_healthy_proxies">>
      [] op = "log_request"  -> <<"LPUSH", "LTRIM", "PUBLISH">>
      [] OTHER               -> <<"GET">>

Started(t)  == tasks[t].op # "idle"
Finished(t) == Started(t) /\ tasks[t].cmds = <<>>
AllDone     == \A t \in Tasks : tasks[t].cmds = <<>>

TaskPoolFrame ==
    UNCHANGED <<select_vars, gw, conn, request_log, live_requests, blk,
                scrape, server>>

\* a request or a probe calls the coroutine
Start(t, op, a) ==
    /\ ~Started(t)
    /\ tasks' = [tasks EXCEPT ![t] = [Idle EXCEPT !.op = op, !.a = a,
                                                  !.cmds = FirstCmds(op)]]
    /\ UNCHANGED pool_vars
    /\ TaskPoolFrame

\* GET gengar:proxy:<addr>; what follows depends on the record read
Get(t) ==
    LET task == tasks[t]
    IN  /\ task.cmds # <<>> /\ Head(task.cmds) = "GET"
        /\ tasks' = [tasks EXCEPT
                        ![t].rec  = Written(task.op, task.a, proxy[task.a]),
                        ![t].cmds = Program(task.op, task.a, proxy[task.a])]
        /\ UNCHANGED pool_vars
        /\ TaskPoolFrame

\* pool.py:216-218: SMEMBERS gengar:pool:dead, nothing more when it is empty
SmembersDead(t) ==
    LET task == tasks[t]
    IN  /\ task.cmds # <<>> /\ Head(task.cmds) = "SMEMBERS dead"
        /\ tasks' = [tasks EXCEPT
                        ![t].read = dead,
                        ![t].cmds = IF dead = {} THEN <<>> ELSE <<"EXEC flush">>]
        /\ UNCHANGED pool_vars
        /\ TaskPoolFrame

\* the effect of one write command, or of one pipeline, on the keys
Exec(r, task) ==
    LET c == Head(task.cmds)
        a == task.a
    IN  CASE c = "SET"            -> [r EXCEPT !.proxy[a] = task.rec]
          [] c = "SADD index"     -> [r EXCEPT !.index = @ \cup {a}]
          [] c = "SADD healthy"   -> [r EXCEPT !.healthy = @ \cup {a}]
          [] c = "SREM healthy"   -> [r EXCEPT !.healthy = @ \ {a}]
          [] c = "SADD dead"      -> [r EXCEPT !.dead = @ \cup {a}]
          [] c = "SREM dead"      -> [r EXCEPT !.dead = @ \ {a}]
          [] c = "HINCRBY blocks" -> incr_stat(r, "blocks")
          [] c = "EXEC remove"    -> remove_proxy(r, a)
          [] c = "EXEC flush"     ->
                 [r EXCEPT !.proxy = [b \in Addr |->
                                         IF b \in task.read THEN NoRecord
                                         ELSE @[b]],
                           !.index = @ \ task.read,
                           !.dead  = {}]

WriteCmds == {"SET", "SADD index", "SADD healthy", "SREM healthy",
              "SADD dead", "SREM dead", "HINCRBY blocks", "EXEC remove",
              "EXEC flush"}

\* the next write command, or pipeline, of a coroutine reaches the store
Write(t) ==
    LET task == tasks[t]
    IN  /\ task.cmds # <<>> /\ Head(task.cmds) \in WriteCmds
        /\ Store(Exec(Keys, task))
        /\ tasks' = [tasks EXCEPT ![t].cmds = Tail(@)]
        /\ TaskPoolFrame

\* The pools the coroutines start on: empty, after add_proxy, after
\* mark_dead, and after two failed probes.
EmptyPool ==
    [proxy |-> [a \in Addr |-> NoRecord], index |-> {}, healthy |-> {},
     dead |-> {}, stats |-> [blocks |-> 0]]

TaskAddr == "1.1.1.1:8080"

SeedPools ==
    LET added == add_proxy(EmptyPool, TaskAddr, NoKwargs)
    IN  {EmptyPool, added, mark_dead(added, TaskAddr),
         probe_failure(probe_failure(added, TaskAddr), TaskAddr)}

InitTasks ==
    /\ \E r \in SeedPools :
          /\ proxy = r.proxy /\ index = r.index /\ healthy = r.healthy
          /\ dead = r.dead /\ stats = r.stats
    /\ domain_overrides = [d \in Domains |-> NoOverride]
    /\ session  = [s \in Sessions |-> NoPin]
    /\ rr_index = 0
    /\ config   = [rotation_strategy        |-> "round-robin",
                   time_based_current_proxy |-> NoProxy,
                   time_based_last_rotation |-> 0,
                   on_block_current_proxy   |-> NoProxy]
    /\ now      = 0
    /\ smembers = CHOOSE o \in Orders : TRUE
    /\ returned = NoProxy
    /\ rr_run   = NoRun
    /\ InitIO

\* Mutations of one address that run concurrently.
MutateOps == {"add_proxy", "record_success", "probe_success", "mark_dead",
              "mark_block", "probe_failure"}

NextMutate ==
    \/ \E t \in Tasks, op \in MutateOps : Start(t, op, TaskAddr)
    \/ \E t \in Tasks : Get(t)
    \/ \E t \in Tasks : Write(t)

SpecMutate == InitTasks /\ [][NextMutate]_vars

\* A removal, by the third failed probe or by flush_dead, that runs
\* concurrently with coroutines that read, change and write back the record
\* of the same proxy.
RemovalOps == {"probe_failure", "flush_dead", "record_success",
               "record_failure", "probe_success"}

NextRemoval ==
    \/ \E t \in Tasks, op \in RemovalOps : Start(t, op, TaskAddr)
    \/ \E t \in Tasks : Get(t)
    \/ \E t \in Tasks : SmembersDead(t)
    \/ \E t \in Tasks : Write(t)

SpecRemoval == InitTasks /\ [][NextRemoval]_vars

\* strategies.py:151-162: the round-robin select, one step per awaited call
CursorFrame ==
    UNCHANGED <<pool_vars, session, config, domain_overrides, now, smembers,
                returned, rr_run, gw, conn, request_log, live_requests, blk,
                scrape, server>>

\* proxies = await self.pool.get_healthy_proxies(); None when it is empty
GetHealthyProxies(t) ==
    LET task == tasks[t]
        list == HealthyList(Keys)
    IN  /\ task.cmds # <<>> /\ Head(task.cmds) = "get_healthy_proxies"
        /\ tasks' = [tasks EXCEPT
                        ![t].proxies = list,
                        ![t].cmds = IF list = <<>> THEN <<>>
                                    ELSE <<"GET rr", "SET rr">>]
        /\ UNCHANGED rr_index
        /\ CursorFrame

\* idx = await self.pool.get_rr_index(), wrapped; proxy = proxies[idx]
GetRrIndex(t) ==
    LET task == tasks[t]
        idx  == IF rr_index >= Len(task.proxies) THEN 0 ELSE rr_index
    IN  /\ task.cmds # <<>> /\ Head(task.cmds) = "GET rr"
        /\ tasks' = [tasks EXCEPT ![t].idx  = idx,
                                  ![t].ret  = task.proxies[idx + 1],
                                  ![t].cmds = Tail(@)]
        /\ UNCHANGED rr_index
        /\ CursorFrame

\* await self.pool.set_rr_index(idx + 1); return proxy
SetRrIndex(t) ==
    LET task == tasks[t]
    IN  /\ task.cmds # <<>> /\ Head(task.cmds) = "SET rr"
        /\ rr_index' = task.idx + 1
        /\ tasks' = [tasks EXCEPT ![t].cmds = Tail(@)]
        /\ CursorFrame

StartSelect(t) ==
    /\ ~Started(t)
    /\ tasks' = [tasks EXCEPT ![t] = [Idle EXCEPT !.op = "select",
                                                  !.cmds = FirstCmds("select")]]
    /\ UNCHANGED rr_index
    /\ CursorFrame

\* Healthy pools of no, one, two and three proxies, with the cursor where
\* earlier selects may have left it.
RECURSIVE AddAll(_, _)
AddAll(r, S) ==
    IF S = {} THEN r
    ELSE LET a == CHOOSE x \in S : TRUE
         IN  AddAll(add_proxy(r, a, NoKwargs), S \ {a})

InitCursor ==
    /\ \E S \in SUBSET Addr :
          LET r == AddAll(EmptyPool, S)
          IN  /\ proxy = r.proxy /\ index = r.index /\ healthy = r.healthy
              /\ dead = r.dead /\ stats = r.stats
    /\ domain_overrides = [d \in Domains |-> NoOverride]
    /\ session  = [s \in Sessions |-> NoPin]
    /\ rr_index \in 0..Cardinality(Addr)
    /\ config   = [rotation_strategy        |-> "round-robin",
                   time_based_current_proxy |-> NoProxy,
                   time_based_last_rotation |-> 0,
                   on_block_current_proxy   |-> NoProxy]
    /\ now      = 0
    /\ smembers = CHOOSE o \in Orders : TRUE
    /\ returned = NoProxy
    /\ rr_run   = NoRun
    /\ InitIO

NextCursor ==
    \/ \E t \in Tasks : StartSelect(t)
    \/ \E t \in Tasks : GetHealthyProxies(t)
    \/ \E t \in Tasks : GetRrIndex(t)
    \/ \E t \in Tasks : SetRrIndex(t)

SpecCursor == InitCursor /\ [][NextCursor]_vars

\* handler.py:109-113: log_request_to_redis, one step per awaited command;
\* handler.py:213-216 awaits it in every request handler and main.py:182
\* runs it as a task of its own.
MaxEntries == 4

LogFrame == UNCHANGED <<pool_vars, select_vars, gw, conn, blk, scrape, server>>

Publishing == {t \in Tasks : tasks[t].cmds # <<>>}

\* a handler has built its entry; the entry carries the number of the call
\* in place of its timestamp
StartLog(t) ==
    /\ tasks[t].cmds = <<>>
    /\ Len(live_requests) + Cardinality(Publishing) < MaxEntries
    /\ tasks' = [tasks EXCEPT ![t] =
                    [Idle EXCEPT !.op   = "log_request",
                                 !.rec  = [ts |-> Len(live_requests)
                                                  + Cardinality(Publishing) + 1],
                                 !.cmds = FirstCmds("log_request")]]
    /\ UNCHANGED <<request_log, live_requests>>
    /\ LogFrame

Lpush(t) ==
    /\ tasks[t].cmds # <<>> /\ Head(tasks[t].cmds) = "LPUSH"
    /\ request_log' = <<tasks[t].rec>> \o request_log
    /\ tasks' = [tasks EXCEPT ![t].cmds = Tail(@)]
    /\ UNCHANGED live_requests
    /\ LogFrame

Ltrim(t) ==
    /\ tasks[t].cmds # <<>> /\ Head(tasks[t].cmds) = "LTRIM"
    /\ request_log' = LTrim(request_log, 0, 499)
    /\ tasks' = [tasks EXCEPT ![t].cmds = Tail(@)]
    /\ UNCHANGED live_requests
    /\ LogFrame

Publish(t) ==
    /\ tasks[t].cmds # <<>> /\ Head(tasks[t].cmds) = "PUBLISH"
    /\ live_requests' = Append(live_requests, tasks[t].rec)
    /\ tasks' = [tasks EXCEPT ![t].cmds = Tail(@)]
    /\ UNCHANGED request_log
    /\ LogFrame

NextPublish ==
    \/ \E t \in Tasks : StartLog(t)
    \/ \E t \in Tasks : Lpush(t)
    \/ \E t \in Tasks : Ltrim(t)
    \/ \E t \in Tasks : Publish(t)

SpecPublish == Init /\ [][NextPublish]_vars

\* ------------------------------------------------------------------------
\* Properties
\* ------------------------------------------------------------------------

Range(f) == {f[i] : i \in DOMAIN f}

\* C1: after any sequence of pool operations every address in the healthy
\* set is in the index set and not in the dead set.
C1_HealthyInIndexNotDead ==
    \A a \in healthy : a \in index /\ a \notin dead

\* a pool with a proxy that was checked and is healthy, and a dead one
C1_Witness ==
    \E a, b \in Addr :
        /\ a \in healthy /\ proxy[a] # NoRecord /\ proxy[a].total_checks > 0
        /\ b \in dead /\ b \in index

\* C2: after any sequence of pool operations and mark-block requests, on
\* addresses present or not, every address in the dead set is in the index
\* set and not in the healthy set.
C2_DeadInIndexNotHealthy ==
    \A a \in dead : a \in index /\ a \notin healthy

\* C3: every stored record has success_count + fail_count = total_checks
\* and 0 <= health_score <= 100.
C3_RecordConsistent ==
    \A a \in Addr :
        proxy[a] # NoRecord =>
            /\ proxy[a].success_count + proxy[a].fail_count = proxy[a].total_checks
            /\ ScoreGE(proxy[a].health_score, Score(0))
            /\ ScoreGE(Score(100), proxy[a].health_score)

\* C4: in every pool the operations reach, record_failure on a present proxy
\* keeps its record and the index; the call that brings consecutive_fails to
\* 3 (the third in a row from 0) leaves it in dead and out of healthy, a call
\* that brings it to 1 or 2 moves nothing between the sets; on an absent
\* proxy it changes no key.
C4_RecordFailureThreshold ==
    \A a \in Addr :
        LET r == record_failure(Keys, a)
        IN  IF proxy[a] # NoRecord
            THEN /\ r.proxy[a] # NoRecord
                 /\ r.proxy[a].consecutive_fails = proxy[a].consecutive_fails + 1
                 /\ r.index = index
                 /\ \A b \in Addr \ {a} : r.proxy[b] = proxy[b]
                 /\ proxy[a].consecutive_fails + 1 >= 3 =>
                        a \in r.dead /\ a \notin r.healthy
                 /\ proxy[a].consecutive_fails + 1 < 3 =>
                        r.dead = dead /\ r.healthy = healthy
            ELSE r = Keys

\* a fresh proxy after exactly three failures: dead, still stored and indexed
C4_Witness ==
    \E a \in Addr :
        /\ proxy[a] # NoRecord
        /\ proxy[a].consecutive_fails = 3
        /\ proxy[a].fail_count = 3 /\ proxy[a].total_checks = 3
        /\ a \in dead /\ a \notin healthy /\ a \in index

\* C5: in every pool the operations reach, record_success on a present
\* proxy, dead or not, resets consecutive_fails, adds one to success_count
\* and total_checks and leaves the address in healthy and out of dead; on an
\* absent proxy it changes no key.
C5_RecordSuccessRevives ==
    \A a \in Addr, l \in Latencies :
        LET r == record_success(Keys, a, l)
        IN  IF proxy[a] # NoRecord
            THEN /\ r.proxy[a] # NoRecord
                 /\ r.proxy[a].consecutive_fails = 0
                 /\ r.proxy[a].success_count = proxy[a].success_count + 1
                 /\ r.proxy[a].total_checks = proxy[a].total_checks + 1
                 /\ a \in r.healthy /\ a \notin r.dead
            ELSE r = Keys

\* three failures took the proxy to dead, one success brought it back
C5_Witness ==
    \E a \in Addr :
        /\ proxy[a] # NoRecord
        /\ proxy[a].fail_count = 3 /\ proxy[a].success_count = 1
        /\ proxy[a].consecutive_fails = 0
        /\ a \in healthy /\ a \notin dead

\* min_score values a caller of get_healthy_proxies passes
MinScores == {Score(0), Score(50), Score(100)}

AnySelect ==
    \/ PerRequestStrategy_select
    \/ \E sid \in Sessions \cup {NoSession}, ttl \in 1..MaxTTL :
          PerSessionStrategy_select(sid, ttl)
    \/ \E interval \in 1..MaxInterval : TimeBasedStrategy_select(interval)
    \/ OnBlockStrategy_select
    \/ RoundRobinStrategy_select

\* C7: under each strategy a select returns none if and only if
\* get_healthy() is empty.
C7_NoneIffHealthyEmpty ==
    [][AnySelect => (returned' = NoProxy <=> HealthyList(Keys) = <<>>)]_vars

\* C8: round-robin from cursor 0 on a healthy list that stays the same: the
\* k-th select returns entry ((k-1) mod N) + 1 of the list, so the first N
\* selects return the N proxies once each in list order and the next N
\* selects return the same sequence.
C8_RoundRobinCycle ==
    (rr_run.ok /\ rr_run.out # <<>>) =>
        LET base == rr_run.base
            out  == rr_run.out
            N    == Len(base)
        IN  /\ base = HealthyList(Keys)
            /\ Cardinality(Range(base)) = N
            /\ Len(out) <= 2 * N
            /\ \A k \in DOMAIN out : out[k] = base[((k - 1) % N) + 1]

\* two full rounds over three proxies
C8_Witness ==
    /\ rr_run.ok
    /\ Len(rr_run.base) = 3
    /\ Len(rr_run.out) = 6

RECURSIVE AddEach(_, _)
AddEach(r, list) ==
    IF list = <<>> THEN r
    ELSE AddEach(add_proxy(r, Head(list), NoKwargs), Tail(list))

StatFields ==
    {"success_count", "fail_count", "total_checks", "consecutive_fails",
     "health_score"}

\* C20: in every pool state, add on an address that has a record leaves the
\* record's statistics unchanged, whatever the caller passes; after add the
\* address is in index and healthy and not in dead; and bulk_add of a list
\* leaves the store as add applied to each element in order does.
C20_AddInsertIfAbsent ==
    /\ \A a \in Addr, kwargs \in Kwargs :
          LET r == add_proxy(Keys, a, kwargs)
          IN  /\ Present(Keys, a) =>
                    \A f \in StatFields : r.proxy[a][f] = proxy[a][f]
              /\ a \in r.index /\ a \in r.healthy /\ a \notin r.dead
    /\ \A list \in BulkLists : bulk_add(Keys, list) = AddEach(Keys, list)

\* the pattern occurs in the text, case-insensitively, within its first
\* limit characters
OccursWithin(pattern, text, limit) ==
    \E i \in 1..limit :
        /\ i + Len(pattern) - 1 <= limit
        /\ i + Len(pattern) - 1 <= Len(text)
        /\ \A k \in 1..Len(pattern) : ToLower(text[i + k - 1]) = pattern[k]

\* C16: an attempt that got a response is classified as blocked if and only
\* if its status is 403, 407, 429 or 503, or one of the eight block patterns
\* occurs case-insensitively in the first 5000 characters of the body, or a
\* Location is present and one of the four challenge patterns occurs in it;
\* an attempt that ended in a timeout or a transport error is classified as
\* blocked.
C16_IsBlocked ==
    blk.pc = "done" =>
        LET o == blk.outcome
        IN  IF o.kind = "response"
            THEN blk.result.blocked <=>
                   \/ o.status \in {403, 407, 429, 503}
                   \/ \E p \in 1..8 :
                         OccursWithin(BLOCK_PATTERNS[p], BodyText(o.body), 5000)
                   \/ /\ o.location # NoLocation
                      /\ \E p \in 1..4 :
                            OccursWithin(CHALLENGE_URL_PATTERNS[p], o.location,
                                         Len(o.location))
            ELSE blk.result.blocked

\* a 200 response whose body holds a block pattern that ends exactly at
\* character 5000 was classified as blocked
C16_Witness ==
    /\ blk.pc = "done"
    /\ blk.outcome.kind = "response"
    /\ blk.outcome.status = 200
    /\ blk.outcome.body = "late"
    /\ blk.outcome.location = NoLocation
    /\ blk.result.blocked

\* C17: after every completed publish request_log holds at most 500
\* entries, its head is the entry published last, that entry is the last
\* message broadcast on live_requests, and the list is the newest 500 of the
\* published entries, newest first.
C17_LiveLogBounded ==
    LET n == Len(live_requests)
        m == IF n < 500 THEN n ELSE 500
    IN  /\ Len(request_log) <= 500
        /\ Len(request_log) = m
        /\ n > 0 => Head(request_log) = live_requests[n]
        /\ \A i \in 1..m : request_log[i] = live_requests[n + 1 - i]

\* 502 entries were published: the two oldest are gone from the list
C17_Witness ==
    /\ Len(live_requests) >= 502
    /\ Len(request_log) = 500
    /\ request_log[500].ts = Len(live_requests) - 499

\* what the upstream answered, as the client is to receive it
Verbatim(outcome) ==
    IF outcome.kind = "response"
    THEN [status |-> outcome.status,
          headers |-> [location |-> outcome.location],
          body |-> outcome.body]
    ELSE [status |-> 502, headers |-> NoHeaders, body |-> "empty"]

\* the classification the claims speak of, from the outcome of an attempt
Blocked(outcome) ==
    \/ outcome.kind # "response"
    \/ outcome.status \in {403, 407, 429, 503}
    \/ outcome.body \in {"captcha", "denied", "late"}

\* C12: a forwarded request that is over, whose attempt 1 got a blocked
\* response and whose attempt 2 got a response that is not blocked, has
\* exactly one client response, with the status of attempt 2, exactly two
\* live-log entries, attempt 1 with blocked true and then attempt 2 with
\* blocked false, and exactly one mark-block call, for the proxy of
\* attempt 1.
C12_BlockedThenOk ==
    (/\ gw.pc = "done"
     /\ Len(gw.upstreams) = 2
     /\ Blocked(gw.upstreams[1].outcome)
     /\ ~Blocked(gw.upstreams[2].outcome)) =>
        /\ Len(gw.responses) = 1
        /\ gw.responses[1].status = gw.upstreams[2].outcome.status
        /\ Len(live_requests) = 2
        /\ live_requests[1].attempt = 1 /\ live_requests[1].blocked
        /\ live_requests[1].proxy_ip = gw.upstreams[1].proxy
        /\ live_requests[2].attempt = 2 /\ ~live_requests[2].blocked
        /\ request_log = <<live_requests[2], live_requests[1]>>
        /\ gw.marks = <<gw.upstreams[1].proxy>>
        /\ stats.blocks = 1

\* attempt 1 got 403 from one proxy, attempt 2 got 200 from another
C12_Witness ==
    /\ gw.pc = "done"
    /\ Len(gw.upstreams) = 2
    /\ gw.upstreams[1].outcome.kind = "response"
    /\ gw.upstreams[1].outcome.status = 403
    /\ gw.upstreams[2].outcome.kind = "response"
    /\ gw.upstreams[2].outcome.status = 200
    /\ gw.upstreams[1].proxy # gw.upstreams[2].proxy
    /\ gw.responses = <<Verbatim(gw.upstreams[2].outcome)>>

C14_NoProxy502 ==
    [][(GetNextProxy /\ returned' = NoProxy) =>
          /\ gw'.pc = "done"
          /\ gw'.responses =
                <<[status  |-> 502,
                   headers |-> NoHeaders,
                   body    |-> "no healthy proxies available"]>>
          /\ gw'.upstreams = gw.upstreams
          /\ gw'.marks = gw.marks
          /\ UNCHANGED <<request_log, live_requests, pool_vars>>]_vars

\* the first attempt was blocked and marked, the second found no proxy
C14_Witness ==
    /\ gw.pc = "done"
    /\ gw.attempt = 2
    /\ Len(gw.upstreams) = 1 /\ Len(gw.marks) = 1 /\ Len(request_log) = 1
    /\ gw.responses[1].status = 502
    /\ gw.responses[1].body = "no healthy proxies available"

\* C15: when a CONNECT request is over, the client was sent 200 Connection
\* Established and the tunnel was relayed if and only if the upstream of some
\* attempt answered with a status line holding 200; otherwise the client was
\* sent 502 Bad Gateway; it was never sent both; and every attempt whose
\* upstream connect or handshake failed was followed by a mark-block for
\* that upstream.
C15_ConnectOutcome ==
    conn.pc = "done" =>
        LET answered200 == \E k \in DOMAIN conn.upstreams :
                              conn.upstreams[k].result = "200"
            sent(line)  == \E i \in DOMAIN conn.client : conn.client[i] = line
        IN  /\ (sent(Established) /\ conn.relayed) <=> answered200
            /\ ~answered200 => conn.client = <<BadGateway>>
            /\ ~(sent(Established) /\ sent(BadGateway))
            /\ Len(conn.upstreams) <= 3
            /\ \A k \in DOMAIN conn.upstreams :
                  conn.upstreams[k].result # "200" =>
                     \E m \in DOMAIN conn.marks :
                        /\ conn.marks[m].attempt = k
                        /\ conn.marks[m].proxy = conn.upstreams[k].proxy

\* The address a line lists, read off the line by hand: an ip of four groups
\* of digits, a colon and a port of two to five digits within 1..65535, with
\* surrounding blanks and leading zeros of the port dropped; "nothing" for
\* every other line.
ListedAddress(line) ==
    CASE line \in {"plain", "padded"} -> "1.1.1.1:8080"
      [] line = "second"              -> "2.2.2.2:3128"
      [] line \in {"third", "zeros"}  -> "3.3.3.3:80"
      [] OTHER                        -> "nothing"

\* the places <<source, line number>> of a cycle where an address is listed
Occurrences(results, a) ==
    {o \in (DOMAIN results) \X (1..5) :
        /\ o[2] \in DOMAIN TextLines(results[o[1]])
        /\ ListedAddress(TextLines(results[o[1]])[o[2]]) = a}

FirstOccurrence(results, a) ==
    CHOOSE o \in Occurrences(results, a) :
        \A q \in Occurrences(results, a) :
            o[1] < q[1] \/ (o[1] = q[1] /\ o[2] <= q[2])

\* C18: after the fetch, merge and dedupe of a scrape cycle, the entries to
\* persist are exactly the addresses listed by well-formed lines with a port
\* in 1..65535 (every other line contributes nothing), no address appears
\* twice, each entry carries the source of the first place in source order
\* where its address is listed, and the record the persist step creates for
\* an address without a record carries that source.
C18_ScrapeDedupe ==
    scrape.pc = "persist" =>
        LET unique == scrape.unique
            listed == {a \in Addr : Occurrences(scrape.results, a) # {}}
            r      == persist(Keys, unique)
        IN  /\ {Key(unique[i]) : i \in DOMAIN unique}
                  = {AddrText(a) : a \in listed}
            /\ \A i, j \in DOMAIN unique :
                  i # j => Key(unique[i]) # Key(unique[j])
            /\ \A i \in DOMAIN unique : \A a \in listed :
                  Key(unique[i]) = AddrText(a) =>
                     /\ unique[i].source =
                           PROXY_SOURCES[FirstOccurrence(scrape.results, a)[1]]
                     /\ ~Present(Keys, a) =>
                           r.proxy[a].source = unique[i].source

\* a cycle where 1.1.1.1:8080 is listed by the first source (padded, port
\* 08080) and twice by the second, next to lines that list nothing
C18_Witness ==
    /\ scrape.pc = "persist"
    /\ scrape.results = <<"padded", "s5", "third", "zeros", "error">>
    /\ Len(scrape.unique) = 3
    /\ scrape.unique[1].source = "api.proxyscrape.com"
    /\ scrape.unique[3].source = "raw.githubusercontent.com"

\* C19: the persist step of a scrape cycle leaves the record of every scraped
\* address that has one unchanged, creates a record with zero statistics for
\* every scraped address without one (an address the health checker removed
\* earlier included), puts every scraped address in the index, and changes
\* nothing else of the pool.
C19_PersistInsertIfAbsent ==
    scrape.pc = "persist" =>
        LET scraped == {AddrOf(Key(scrape.unique[i])) :
                           i \in DOMAIN scrape.unique}
        IN  ~ENABLED
               (/\ ScrapePersist
                /\ ~(/\ \A a \in scraped :
                          /\ Present(Keys, a) => proxy'[a] = proxy[a]
                          /\ ~Present(Keys, a) =>
                                /\ proxy'[a] # NoRecord
                                /\ proxy'[a].health_score = Score(0)
                                /\ \A f \in StatFields \ {"health_score"} :
                                      proxy'[a][f] = 0
                                /\ proxy'[a].latency_ms = 0
                          /\ a \in index'
                     /\ \A a \in Addr \ scraped : proxy'[a] = proxy[a]
                     /\ index' = index \cup scraped
                     /\ healthy' = healthy
                     /\ dead' = dead
                     /\ stats' = stats))

\* an address the health checker removed after three failed probes is back
\* with a record of zero statistics, next to a record whose counters a
\* scrape has left alone
C19_Witness ==
    /\ scrape.pc = "idle"
    /\ \E a \in scrape.removed :
          /\ a \in index
          /\ proxy[a] # NoRecord
          /\ proxy[a].total_checks = 0

SelectOf(name, session_id) ==
    CASE name = "per-request" -> PerRequestStrategy_select
      [] name = "per-session" -> PerSessionStrategy_select(session_id, MaxTTL)
      [] name = "time-based"  -> TimeBasedStrategy_select(MaxInterval)
      [] name = "on-block"    -> OnBlockStrategy_select
      [] name = "round-robin" -> RoundRobinStrategy_select

\* C22: every next-proxy request for a domain that has an override is a
\* select of the strategy the override names, every request for a domain
\* without one (or without a domain) a select of the global strategy, a name
\* outside the five known ones a per-request select; and no request and no
\* change of an override changes the global setting.
C22_OverrideDispatch ==
    [][/\ \A sid \in Sessions \cup {NoSession}, d \in Domains \cup {NoDomain} :
            LET named == IF d # NoDomain /\ domain_overrides[d] # NoOverride
                         THEN domain_overrides[d].strategy
                         ELSE config.rotation_strategy
                used  == IF named \in STRATEGY_MAP THEN named
                         ELSE "per-request"
            IN  NextProxy(sid, d) =>
                    /\ SelectOf(used, sid)
                    /\ domain_overrides' = domain_overrides
       /\ config'.rotation_strategy = config.rotation_strategy]_vars

\* the global strategy is per-session and has pinned a session, while a
\* request for a.example, overridden to round-robin, has moved the cursor
C22_Witness ==
    /\ config.rotation_strategy = "per-session"
    /\ domain_overrides["a.example"] = [strategy |-> "round-robin"]
    /\ domain_overrides["b.example"] = NoOverride
    /\ session["s"] # NoPin
    /\ rr_index = 1
    /\ returned # NoProxy

\* C23: a pin written at time t with TTL ttl expires at t + ttl: it is there at
\* every moment before its expiry and gone from its expiry on; a select that
\* reads a live pin of a proxy that is not dead leaves the pin and its expiry
\* as they are; and a select for a session without a pin (never pinned, or
\* expired) returns a proxy of the healthy list and pins it with expiry
\* now + ttl.
C23_PinExpiry ==
    [][\A sid \in Sessions :
         LET pin == session[sid]
         IN  /\ pin # NoPin =>
                   /\ pin.expires > now
                   /\ now' < pin.expires => session'[sid] # NoPin
                   /\ now' >= pin.expires => session'[sid] = NoPin
             /\ \A ttl \in 1..MaxTTL :
                   PerSessionStrategy_select(sid, ttl) =>
                      /\ (pin # NoPin /\ pin.proxy \notin dead) =>
                            session'[sid] = pin
                      /\ (pin = NoPin /\ HealthyList(Keys) # <<>>) =>
                            /\ returned' \in Range(HealthyList(Keys))
                            /\ session'[sid] = [proxy   |-> returned',
                                                expires |-> now + ttl]]_vars

\* the session was pinned (every select of this specification is for the
\* session, and one has returned a proxy), time has passed and the pin is
\* gone: the next select chooses afresh
C23_Witness ==
    /\ now > 0
    /\ returned # NoProxy
    /\ session["s"] = NoPin
    /\ HealthyList(Keys) # <<>>

\* C24 as stated: the cursor is a non-negative integer that no round-robin
\* select decreases, and each select over a healthy list that is not empty
\* returns the entry at position (cursor read) modulo (length of the list).
C24_CursorMonotoneModulo ==
    [][RoundRobinStrategy_select =>
          LET list == HealthyList(Keys)
          IN  /\ rr_index >= 0
              /\ rr_index' >= rr_index
              /\ list # <<>> =>
                    returned' = list[(rr_index % Len(list)) + 1]]_vars

\* C24: the cursor is a non-negative integer; a round-robin select over a
\* healthy list of N > 0 entries returns the entry at position (cursor read)
\* modulo N when the cursor read is at most N and the first entry when it
\* is larger, and stores a cursor within 1..N: the cursor goes back to 1
\* after the last entry instead of growing.  Over an empty list the select
\* returns nothing and keeps the cursor.
C24_CursorReset ==
    [][RoundRobinStrategy_select =>
          LET list == HealthyList(Keys)
              N    == Len(list)
          IN  /\ rr_index >= 0
              /\ N = 0 => returned' = NoProxy /\ rr_index' = rr_index
              /\ N > 0 =>
                    /\ rr_index' \in 1..N
                    /\ rr_index <= N => returned' = list[(rr_index % N) + 1]
                    /\ rr_index > N  => returned' = list[1]
                    /\ rr_index < N  => rr_index' = rr_index + 1
                    /\ rr_index >= N => rr_index' = 1]_vars

\* the fourth select over three proxies: the cursor, 3 after the third
\* select, is 1 again
C24_Witness ==
    /\ rr_run.ok
    /\ Len(rr_run.base) = 3
    /\ Len(rr_run.out) = 4
    /\ rr_index = 1

\* C25: at every moment the handlers that hold a slot are at most
\* MAX_CONNECTIONS, active_connections lies in 0..MAX_CONNECTIONS and counts
\* exactly the handlers between their increment and their decrement (so it
\* is 0 when no handler is running), the semaphore has one slot less for each
\* handler that holds one, and a connection that finds no free slot keeps
\* waiting: it cannot enter and it is not dropped.
C25_ConnectionBudget ==
    /\ server.handling + server.closing <= MAX_CONNECTIONS
    /\ server.active_connections >= 0
    /\ server.active_connections <= MAX_CONNECTIONS
    /\ server.active_connections = server.handling
    /\ server.handling = 0 => server.active_connections = 0
    /\ server.semaphore
          = MAX_CONNECTIONS - server.handling - server.closing
    /\ (server.waiting > 0 /\ server.semaphore = 0) =>
          /\ ~ENABLED Acquire
          /\ ~ENABLED (NextServe /\ server'.waiting < server.waiting)

\* all 200 slots are held, some by handlers already past their decrement,
\* and a connection waits
C25_Witness ==
    /\ server.handling + server.closing = MAX_CONNECTIONS
    /\ server.closing > 0
    /\ server.active_connections = server.handling
    /\ server.waiting > 0

\* after the signal no connection is accepted and no handler starts
C26_NoNewConnection ==
    [][server.shutting_down =>
          /\ server'.waiting <= server.waiting
          /\ server'.handling <= server.handling]_vars

\* the shared clients are closed only after the drain
C26_CloseAfterDrain ==
    [][(server.clients = "open" /\ server'.clients = "closed") =>
          \/ server.active_connections = 0
          \/ server.polls = DRAIN_POLLS]_vars

\* after the signal main reaches its end within DRAIN_POLLS polls
C26_Completes ==
    /\ [](server.polls <= DRAIN_POLLS)
    /\ server.shutting_down ~> server.pc = "stopped"

\* C26: once the termination signal has been received no connection is
\* accepted and no handler starts handling one; the shared clients are
\* closed only when active_connections is 0 or 60 polls have elapsed; and
\* after the signal main always reaches its end, with at most 60 polls.
C26_Shutdown ==
    /\ C26_NoNewConnection
    /\ C26_CloseAfterDrain
    /\ C26_Completes

\* every slot is taken when the signal arrives and a connection that was
\* waiting is being handled afterwards
C26_StartedAfterSignal ==
    /\ server.shutting_down
    /\ server.handling > server.tunnels
    /\ server.tunnels = LongLived
    /\ server.pc = "drain"

\* what the claim takes a failed probe to do: record_failure, and then the
\* permanent removal when consecutive_fails has reached 3
C27_FailureEffect(r, a) ==
    LET r1 == record_failure(r, a)
    IN  IF r1.proxy[a].consecutive_fails >= 3 THEN remove_proxy(r1, a) ELSE r1

\* C27: a failed health probe of a present proxy leaves the record and the
\* healthy and dead sets as record_failure does, and removes the proxy for
\* good exactly when consecutive_fails >= 3; a passed probe leaves them as
\* record_success does.
C27_ProbeIsRecord ==
    [][/\ \A a \in Addr :
             ProbeFailure(a) => Keys' = C27_FailureEffect(Keys, a)
       /\ \A a \in Addr, l \in Latencies :
             ProbeSuccess(a, l) => Keys' = record_success(Keys, a, l)]_vars

\* the passed-probe half of C27 on its own
C27_PassedProbe ==
    [][\A a \in Addr, l \in Latencies :
          ProbeSuccess(a, l) => Keys' = record_success(Keys, a, l)]_vars

\* the removal half of C27 on its own
C27_RemovedAtThree ==
    [][\A a \in Addr :
          ProbeFailure(a) =>
             (~Present(Keys', a) <=> proxy[a].consecutive_fails + 1 >= 3)]_vars

\* the forwarded half of C28: at most MAX_RETRIES upstream attempts, each
\* but the last one blocked, and one response when the handler is done
C28_ForwardAttempts ==
    /\ Len(gw.upstreams) <= MAX_RETRIES
    /\ \A k \in 1..(Len(gw.upstreams) - 1) :
          forward_attempt(gw.upstreams[k].outcome).blocked
    /\ Len(gw.responses) = (IF gw.pc = "done" THEN 1 ELSE 0)

\* the CONNECT half of C28
C28_ConnectAttempts ==
    /\ Len(conn.upstreams) <= 3
    /\ \A k \in 1..(Len(conn.upstreams) - 1) :
          conn.upstreams[k].result # "200"
    /\ Len(conn.client) <= 1
    /\ conn.pc = "done" => Len(conn.client) = 1

\* C28: one client request, forwarded or CONNECT, gets at most three
\* upstream attempts, one after the other, a further attempt only after one
\* that was blocked or failed, and the handler ends having sent exactly one
\* response to the client.
C28_AttemptsAndResponse ==
    /\ [](C28_ForwardAttempts /\ C28_ConnectAttempts)
    /\ gw.pc # "idle" ~> gw.pc = "done"
    /\ conn.pc # "idle" ~> conn.pc = "done"

\* a live-log entry of a blocked attempt with this number through this proxy
C29_Logged(attempt, p) ==
    \E i \in DOMAIN live_requests :
        /\ live_requests[i].attempt = attempt
        /\ live_requests[i].proxy_ip = p
        /\ live_requests[i].blocked

\* the forwarded half of C29: every attempt classified as blocked and marked
\* has its live-log entry, every blocked attempt is marked by the end, and
\* what a blocked attempt got reaches the client only as the last attempt
C29_ForwardBlocks ==
    /\ \A k \in DOMAIN gw.marks : C29_Logged(k, gw.marks[k])
    /\ gw.pc = "done" =>
          \A k \in DOMAIN gw.upstreams :
              forward_attempt(gw.upstreams[k].outcome).blocked =>
                  k \in DOMAIN gw.marks /\ gw.marks[k] = gw.upstreams[k].proxy
    /\ (gw.responses # <<>> /\ gw.proxy # NoProxy /\ returned # NoProxy
           /\ gw.res.blocked) =>
          gw.attempt = MAX_RETRIES

\* the CONNECT half of C29
C29_ConnectBlocks ==
    \A k \in DOMAIN conn.marks :
        C29_Logged(conn.marks[k].attempt, conn.marks[k].proxy)

\* C29: every attempt the gateway classifies as an upstream block, forwarded
\* or CONNECT, has an entry in the live log and has added one to blocks, and
\* a blocked response reaches the client only when no retry remains.
C29_BlocksRecorded ==
    /\ C29_ForwardBlocks
    /\ C29_ConnectBlocks
    /\ stats.blocks = Len(gw.marks) + Len(conn.marks)

\* the counter half of C29 on its own
C29_BlocksCounted == stats.blocks = Len(gw.marks) + Len(conn.marks)

\* C30: a forwarded request during which a call to the store failed is
\* answered with 502.
C30_StoreFailure502 ==
    (gw.pc = "done" /\ gw.store_failed) =>
        /\ Len(gw.responses) = 1
        /\ gw.responses[1].status = 502

\* the part of C30 that holds: a failure of the next-proxy call
C30_NoProxy502 ==
    [][GetNextProxyFails =>
          gw'.responses = <<[status  |-> 502,
                             headers |-> NoHeaders,
                             body    |-> "no healthy proxies available"]>>]_vars

C33_Partition ==
    \A a \in index : (a \in healthy) # (a \in dead)

\* C33 without its lower half: no address of the index is in both sets
C33_NotBoth ==
    \A a \in index : ~(a \in healthy /\ a \in dead)

\* C34: every proxy a select returns, under each of the five strategies and
\* in any state (also after remove_proxy or flush_dead of a pinned or
\* persisted proxy), is at the moment of return a member of the healthy set
\* whose record exists.
C34_ReturnedIsHealthy ==
    [][AnySelect =>
          (returned' # NoProxy =>
              /\ returned' \in healthy'
              /\ Present(Keys', returned'))]_vars

\* C35: mutations of one address (add_proxy, a passed probe or
\* record_success, mark_dead or mark-block, a failed probe) that interleave
\* at the store commands never leave the address in both the healthy and the
\* dead set once all of them have completed.
C35_NeverBoth ==
    AllDone => \A a \in Addr : ~(a \in healthy /\ a \in dead)

\* C36: when a removal (the health checker's remove after the third failed
\* probe, or flush_dead) interleaves with a concurrent read-modify-write of
\* the same proxy, then after all of them have completed an address that is
\* absent from the index has no stored record and is in neither the healthy
\* nor the dead set.
C36_RemovedIsGone ==
    AllDone =>
        \A a \in Addr :
            a \notin index =>
                /\ proxy[a] = NoRecord
                /\ a \notin healthy
                /\ a \notin dead

\* C37: in every state reached by completed pool, scraper and health-checker
\* operations, healthy_count() equals the size of the healthy set, which
\* equals the number of proxies get_healthy_proxies(0) returns.
C37_HealthyCount ==
    /\ healthy_count(Keys) = Cardinality(healthy)
    /\ Cardinality(healthy) = Len(get_healthy_proxies(Keys, Score(0), smembers))

\* the size of the healthy set and the length of the healthy list agree
C37_SetIsList ==
    Cardinality(healthy) = Len(get_healthy_proxies(Keys, Score(0), smembers))

\* C38: two concurrent round-robin selects on a healthy pool of at least two
\* proxies that does not change, interleaving at the reads and writes of the
\* cursor, return two different proxies, and the cursor ends where two
\* selects in a row leave it.
C38_TwoDifferent ==
    \A first, second \in Tasks :
        (/\ first # second
         /\ Finished(first) /\ Finished(second)
         /\ \A t \in Tasks \ {first, second} : ~Started(t)
         /\ Len(HealthyList(Keys)) >= 2)
        => /\ tasks[first].ret # tasks[second].ret
           /\ \/ /\ tasks[second].idx = (tasks[first].idx + 1) % Len(HealthyList(Keys))
                 /\ rr_index = tasks[second].idx + 1
              \/ /\ tasks[first].idx = (tasks[second].idx + 1) % Len(HealthyList(Keys))
                 /\ rr_index = tasks[first].idx + 1

\* C39: when handlers publish to the live log concurrently, the order of
\* the broadcasts on gengar:live_requests is the order in which the entries
\* were prepended to gengar:request_log (whose head is the newest entry).
C39_SameOrder ==
    AllDone =>
        /\ Len(request_log) = Len(live_requests)
        /\ \A i \in DOMAIN live_requests :
              live_requests[i] = request_log[Len(request_log) + 1 - i]

\* C40: within one forwarded request, once the mark-block of a blocked
\* attempt has completed and nothing else touches the pool, the proxy the
\* next attempt selects is never the proxy that was just blocked, under each
\* of the five strategies.
C40_NextIsNotBlocked ==
    [][(GetNextProxy /\ gw.marks # <<>>)
          => returned' # gw.marks[Len(gw.marks)]]_vars

\* a second attempt under on-block got a proxy after the first was blocked
C40_Witness ==
    /\ config.rotation_strategy = "on-block"
    /\ gw.attempt = 2
    /\ gw.pc = "upstream"
    /\ gw.marks # <<>>
    /\ gw.proxy # NoProxy
    /\ gw.proxy \in healthy
    /\ gw.marks[Len(gw.marks)] \in dead

====
